---- MODULE Spec2Model ----
(***************************************************************************)
(* Identifier resolution and mutation composition of the linearis CLI:     *)
(* the `projects` commands (commands/projects.ts), the `documents` and     *)
(* `attachments` commands with their GraphQL services, and                 *)
(* GraphQLIssuesService.updateIssue / createIssue / searchIssues.          *)
(*                                                                         *)
(* One behaviour of Spec is one invocation.  The remote GraphQL endpoint is *)
(* the environment: every rawRequest is answered by a response drawn from  *)
(* a bounded set (or rejects); every request sent is logged in `requests`, *)
(* and `answer` is the answer to the last of them.                         *)
(*                                                                         *)
(* One behaviour of RoundTripSpec is a series of invocations of the        *)
(* `attachments` commands against a remote that keeps the attachments      *)
(* (`remote`); `session` is what the outputs seen so far tell.             *)
(*                                                                         *)
(* One behaviour of ParallelSpec is one invocation of a command that       *)
(* awaits two service creations together, the creations settling in        *)
(* either order.                                                           *)
(***************************************************************************)
EXTENDS Integers, Sequences, FiniteSets, TLC

VARIABLES cmd, args, pc, requests, answer, loc, outcome, remote, session

vars == <<cmd, args, pc, requests, answer, loc, outcome, remote, session>>

\* ------------------------------------------------------------------ bounds
\* at most this many optional arguments / options are set in one invocation
MaxSetFields == 2
\* at most this many nodes in one list of a response
MaxNodes == 2

\* ----------------------------------------------------------------- strings
\* A JavaScript string is a sequence of one-character strings.
Rep(c, n) == [i \in 1..n |-> c]

HexDigits ==
  {"0", "1", "2", "3", "4", "5", "6", "7", "8", "9",
   "a", "b", "c", "d", "e", "f", "A", "B", "C", "D", "E", "F"}

Digits == <<"0", "1", "2", "3", "4", "5", "6", "7", "8", "9">>

\* /^[0-9a-f]{8}-[0-9a-f]{4}-[0-9a-f]{4}-[0-9a-f]{4}-[0-9a-f]{12}$/i
isUuid(s) ==
  /\ Len(s) = 36
  /\ \A i \in 1..36 :
       IF i \in {9, 14, 19, 24} THEN s[i] = "-" ELSE s[i] \in HexDigits

\* the UUID whose every hexadecimal digit is c
Uuid(c) ==
  Rep(c, 8) \o <<"-">> \o Rep(c, 4) \o <<"-">> \o Rep(c, 4) \o <<"-">>
    \o Rep(c, 4) \o <<"-">> \o Rep(c, 12)

DigitValue(c) == CHOOSE d \in 0..9 : Digits[d + 1] = c

IsDigit(c) == \E d \in 1..10 : Digits[d] = c

\* ------------------------------------------------------- JavaScript values
Undefined == [t |-> "undefined", v |-> <<>>]
Null == [t |-> "null", v |-> <<>>]
NaN == [t |-> "NaN", v |-> <<>>]
True == [t |-> "boolean", v |-> TRUE]
Str(s) == [t |-> "string", v |-> s]
Num(n) == [t |-> "number", v |-> n]
Arr(a) == [t |-> "array", v |-> a]

\* ToBoolean
Truthy(x) ==
  CASE x.t = "string" -> x.v # <<>>
    [] x.t = "number" -> x.v # 0
    [] x.t = "boolean" -> x.v
    [] x.t = "array" -> TRUE
    [] OTHER -> FALSE

RECURSIVE DigitsValue(_, _)
DigitsValue(s, acc) ==
  IF s = <<>> \/ ~IsDigit(Head(s)) THEN acc
  ELSE DigitsValue(Tail(s), 10 * acc + DigitValue(Head(s)))

\* parseInt(string): an optional sign and the leading decimal digits, NaN when
\* there are none
parseInt(s) ==
  LET signed == s # <<>> /\ Head(s) \in {"-", "+"}
      digits == IF signed THEN Tail(s) ELSE s
  IN IF digits = <<>> \/ ~IsDigit(Head(digits)) THEN NaN
     ELSE IF signed /\ Head(s) = "-" THEN Num(0 - DigitsValue(digits, 0))
     ELSE Num(DigitsValue(digits, 0))

\* all sequences over S of length at most n without repeated elements
SeqsNoRep(S, n) ==
  {s \in UNION {[1..k -> S] : k \in 0..n} :
     \A i, j \in DOMAIN s : i # j => s[i] # s[j]}

\* ------------------------------------------------------------------ errors
NoError == [type |-> "none", entity |-> "", value |-> <<>>, matches |-> <<>>]

Error(type, entity, value) ==
  [type |-> type, entity |-> entity, value |-> value, matches |-> <<>>]

\* `${entityType} "${identifier}" not found`
notFoundError(entityType, identifier) ==
  Error("not_found", entityType, identifier)

\* `Multiple ${entityType}s found matching "${identifier}". Candidates: ${matches}`
multipleMatchesError(entityType, identifier, matches) ==
  [type |-> "multiple_matches", entity |-> entityType, value |-> identifier,
   matches |-> matches]

\* the request rejected: the error of the transport bubbles up
transportError(query) == Error("transport", query, <<>>)

\* ---------------------------------------------------------------- requests
\* one entry of the log: the query and its variables
Req(query, variables) == [q |-> query, vars |-> variables]

Queries(log) == {log[i].q : i \in DOMAIN log}

\* ======================================================= commands/projects
NameAlpha == <<"A", "l", "p", "h", "a">>
NameAlphaLower == <<"a", "l", "p", "h", "a">>
NameAlphaUpper == <<"A", "L", "P", "H", "A">>
NameENG == <<"E", "N", "G">>
DateStr == <<"2", "0", "2", "5", "-", "0", "1", "-", "0", "1">>

\* what the user may type as <projectIdOrName>
ProjectRefs ==
  {Uuid("a"), Uuid("F"), Rep("a", 36), Uuid("g"), NameAlpha}

\* nodes the remote may return for FindProjectByName (name eqIgnoreCase)
ProjectNodes ==
  {[id |-> Uuid("1"), name |-> NameAlpha, state |-> "started"],
   [id |-> Uuid("2"), name |-> NameAlphaLower, state |-> "planned"],
   [id |-> Uuid("3"), name |-> NameAlphaUpper, state |-> "completed"]}

FindProjectResponses ==
  {[ok |-> FALSE, nodes |-> <<>>]}
    \cup {[ok |-> TRUE, nodes |-> n] : n \in SeqsNoRep(ProjectNodes, MaxNodes)}

\* the by-name query
FindProjectRequest(projectNameOrId) ==
  Req("FIND_PROJECT_BY_NAME_QUERY", [name |-> Str(projectNameOrId)])

\* variant: of several projects the first one is taken
FindProjectByNameFirstOfMany(projectNameOrId, resp) ==
  LET req == FindProjectRequest(projectNameOrId)
  IN IF ~resp.ok
     THEN [sent |-> <<req>>, err |-> transportError(req.q), id |-> <<>>]
     ELSE IF Len(resp.nodes) = 0
     THEN [sent |-> <<req>>,
           err |-> notFoundError("Project", projectNameOrId), id |-> <<>>]
     ELSE [sent |-> <<req>>, err |-> NoError, id |-> resp.nodes[1].id]

\* the lookup by name of resolveProjectIdFromGraphQL: exactly one project
\* of that name is accepted
FindProjectByName(projectNameOrId, resp) ==
  LET req == FindProjectRequest(projectNameOrId)
      nodes == resp.nodes
  IN IF ~resp.ok
     THEN [sent |-> <<req>>, err |-> transportError(req.q), id |-> <<>>]
     ELSE IF Len(nodes) = 0
     THEN [sent |-> <<req>>,
           err |-> notFoundError("Project", projectNameOrId), id |-> <<>>]
     ELSE IF Len(nodes) > 1
     THEN [sent |-> <<req>>,
           err |-> multipleMatchesError("project", projectNameOrId,
                     [i \in DOMAIN nodes |->
                        [name |-> nodes[i].name, state |-> nodes[i].state]]),
           id |-> <<>>]
     ELSE [sent |-> <<req>>, err |-> NoError, id |-> nodes[1].id]

\* variant: the lookup is made for every reference, UUIDs included
resolveProjectIdAlwaysLookup(projectNameOrId, resp) ==
  FindProjectByName(projectNameOrId, resp)

\* resolveProjectIdFromGraphQL; `resp` is the answer of the remote to the
\* by-name query, read only when the query is sent.
resolveProjectIdFromGraphQL(projectNameOrId, resp) ==
  IF isUuid(projectNameOrId)
  THEN [sent |-> <<>>, err |-> NoError, id |-> projectNameOrId]
  ELSE FindProjectByName(projectNameOrId, resp)

\* ProjectUpdateOptions as commander delivers them
ProjectOptionDomain ==
  [name |-> {Str(NameAlpha)},
   description |-> {Str(<<>>)},
   icon |-> {Str(<<"i">>)},
   color |-> {Str(<<"#", "f", "f", "f">>)},
   lead |-> {Str(Uuid("b")), Str(<<>>)},
   clearLead |-> {True},
   priority |-> {Str(<<"2">>), Str(<<"x">>)},
   startDate |-> {Str(DateStr)},
   clearStartDate |-> {True},
   targetDate |-> {Str(DateStr), Str(<<>>)},
   clearTargetDate |-> {True},
   team |-> {Str(Uuid("c")), Str(NameENG)}]

ProjectOptionNames == DOMAIN ProjectOptionDomain

\* the assignments of a value of dom[k] to every field k of `set`
RECURSIVE Assignments(_, _)
Assignments(dom, set) ==
  IF set = {} THEN {[k \in {} |-> Undefined]}
  ELSE LET k == CHOOSE x \in set : TRUE
       IN {(k :> v) @@ f : f \in Assignments(dom, set \ {k}), v \in dom[k]}

\* records over `dom` with at most MaxSetFields fields other than undefined
SparseRecords(dom) ==
  UNION {
    {[k \in DOMAIN dom |-> IF k \in set THEN f[k] ELSE Undefined] :
       f \in Assignments(dom, set)}
    : set \in {s \in SUBSET DOMAIN dom : Cardinality(s) <= MaxSetFields}}

ProjectCmds == {"projects read", "projects update", "projects archive"}

ProjectArgs(c) ==
  {[projectIdOrName |-> r, options |-> o] :
     r \in ProjectRefs,
     o \in IF c = "projects update" THEN SparseRecords(ProjectOptionDomain)
           ELSE {[k \in ProjectOptionNames |-> Undefined]}}

\* the mutually exclusive flags of `projects update`
ValidateUpdateOptions(options) ==
  IF Truthy(options.lead) /\ Truthy(options.clearLead)
  THEN Error("validation", "--lead and --clear-lead", <<>>)
  ELSE IF Truthy(options.startDate) /\ Truthy(options.clearStartDate)
  THEN Error("validation", "--start-date and --clear-start-date", <<>>)
  ELSE IF Truthy(options.targetDate) /\ Truthy(options.clearTargetDate)
  THEN Error("validation", "--target-date and --clear-target-date", <<>>)
  ELSE NoError
\* variant: a clear flag leaves the variable out instead of sending null
BuildUpdateVarsClearOmits(options, projectId) ==
  LET plain == {k \in {"name", "description", "icon", "color", "priority"} :
                  options[k] # Undefined}
      given == {k \in {"lead", "startDate", "targetDate"} :
                  options[k] # Undefined}
      name(k) == IF k = "lead" THEN "leadId" ELSE k
      opt(k) == IF k = "leadId" THEN "lead" ELSE k
      val(k) ==
        CASE k = "id" -> Str(projectId)
          [] k = "priority" -> parseInt(options.priority.v)
          [] OTHER -> options[opt(k)]
  IN [k \in {"id"} \cup plain \cup {name(g) : g \in given} |-> val(k)]

\* updateVars before the team association is added
BuildUpdateVars(options, projectId) ==
  LET plain == {k \in {"name", "description", "icon", "color", "priority"} :
                  options[k] # Undefined}
      lead == IF Truthy(options.clearLead) \/ options.lead # Undefined
              THEN {"leadId"} ELSE {}
      start == IF Truthy(options.clearStartDate) \/ options.startDate # Undefined
               THEN {"startDate"} ELSE {}
      target == IF Truthy(options.clearTargetDate)
                     \/ options.targetDate # Undefined
                THEN {"targetDate"} ELSE {}
      val(k) ==
        CASE k = "id" -> Str(projectId)
          [] k = "priority" -> parseInt(options.priority.v)
          [] k = "leadId" ->
               IF Truthy(options.clearLead) THEN Null ELSE options.lead
          [] k = "startDate" ->
               IF Truthy(options.clearStartDate) THEN Null ELSE options.startDate
          [] k = "targetDate" ->
               IF Truthy(options.clearTargetDate) THEN Null
               ELSE options.targetDate
          [] OTHER -> options[k]
  IN [k \in {"id"} \cup plain \cup lead \cup start \cup target |-> val(k)]

\* answers to the team lookup of LinearService.resolveTeamId
TeamLookupResponses ==
  {[ok |-> FALSE, nodes |-> <<>>], [ok |-> TRUE, nodes |-> <<>>],
   [ok |-> TRUE, nodes |-> <<[id |-> Uuid("7"), key |-> NameENG]>>]}

\* LinearService.resolveTeamId: an opaque id is returned as it is, a key or
\* name is looked up
resolveTeamId(teamKeyOrNameOrId, resp) ==
  IF isUuid(teamKeyOrNameOrId)
  THEN [sent |-> <<>>, err |-> NoError, id |-> teamKeyOrNameOrId]
  ELSE LET req == Req("teams", [team |-> Str(teamKeyOrNameOrId)])
       IN IF ~resp.ok
          THEN [sent |-> <<req>>, err |-> transportError(req.q), id |-> <<>>]
          ELSE IF Len(resp.nodes) = 0
          THEN [sent |-> <<req>>,
                err |-> notFoundError("Team", teamKeyOrNameOrId), id |-> <<>>]
          ELSE [sent |-> <<req>>, err |-> NoError, id |-> resp.nodes[1].id]

\* transformProject: teams.nodes flattened to teams
transformProject(project) ==
  [id |-> project.id, name |-> project.name, teams |-> project.teams.nodes]

ProjectEntity(id) ==
  [id |-> id, name |-> NameAlpha, teams |-> [nodes |-> <<>>]]

\* answers to GetProject / UpdateProject / ArchiveProject
ProjectOpResponses ==
  {[ok |-> FALSE, success |-> FALSE, found |-> FALSE],
   [ok |-> TRUE, success |-> FALSE, found |-> FALSE],
   [ok |-> TRUE, success |-> TRUE, found |-> TRUE]}

\* ==================================================== GraphQLIssuesService
NameBug == <<"B", "u", "g">>
NameM1 == <<"M", "1">>
NameSprint == <<"S", "p", "r", "i", "n", "t">>
NameDone == <<"D", "o", "n", "e">>
IssueENG1 == <<"E", "N", "G", "-", "1">>
IssueENG2 == <<"E", "N", "G", "-", "2">>
NotAnIdentifier == <<"E", "N", "G", "1">>

Min(S) == CHOOSE x \in S : \A y \in S : x <= y

\* Array.prototype.find / findIndex: the index of the first element with P, or 0
FindIdx(seq, P(_)) ==
  LET hits == {i \in DOMAIN seq : P(seq[i])}
  IN IF hits = {} THEN 0 ELSE Min(hits)

\* [...new Set(seq)]: the first occurrence of every element, in order
RECURSIVE Dedupe(_)
Dedupe(seq) ==
  IF seq = <<>> THEN <<>>
  ELSE LET init == Dedupe(SubSeq(seq, 1, Len(seq) - 1))
           last == seq[Len(seq)]
       IN IF \E i \in DOMAIN init : init[i] = last THEN init
          ELSE Append(init, last)

\* parseIssueIdentifier: "TEAM-123" split at its one hyphen
parseIssueIdentifier(identifier) ==
  LET dashes == {i \in DOMAIN identifier : identifier[i] = "-"}
      p == Min(dashes)
      number == parseInt(SubSeq(identifier, p + 1, Len(identifier)))
  IN IF Cardinality(dashes) # 1
     THEN [err |-> Error("invalid_identifier", "Issue", identifier),
           teamKey |-> <<>>, issueNumber |-> NaN]
     ELSE IF number = NaN
     THEN [err |-> Error("invalid_identifier", "Issue", identifier),
           teamKey |-> <<>>, issueNumber |-> NaN]
     ELSE [err |-> NoError, teamKey |-> SubSeq(identifier, 1, p - 1),
           issueNumber |-> number]

\* ------------------------------------------------------------- updateIssue
UpdateArgDomain ==
  [title |-> {Str(<<"T">>)},
   description |-> {Str(<<>>)},
   statusId |-> {Str(Uuid("5")), Str(NameDone)},
   priority |-> {Num(0)},
   assigneeId |-> {Str(Uuid("6"))},
   projectId |-> {Str(Uuid("d")), Str(NameAlpha)},
   labelIds |-> {Arr(<<Uuid("e")>>), Arr(<<NameBug>>),
                 Arr(<<NameBug, Uuid("e")>>)},
   estimate |-> {Num(3)},
   parentId |-> {Str(Uuid("b")), Str(IssueENG2)},
   milestoneId |-> {Null, Str(Uuid("c")), Str(NameM1)},
   cycleId |-> {Null, Str(Uuid("f")), Str(NameSprint), Str(<<>>)}]

\* labelMode is "overwriting" by default and read only when labels are given
UpdateIssueArgs ==
  UNION {
    {("id" :> id) @@ ("labelMode" :> m) @@ o :
       id \in {Uuid("a"), IssueENG1, NotAnIdentifier},
       m \in IF o.labelIds.t = "array" THEN {"adding", "overwriting"}
             ELSE {"overwriting"}}
    : o \in SparseRecords(UpdateArgDomain)}

\* args.labelIds.filter((id) => !isUuid(id))
LabelNames(a) ==
  IF a.labelIds.t = "array"
  THEN LET NotUuid(x) == ~isUuid(x) IN SelectSeq(a.labelIds.v, NotUuid)
  ELSE <<>>

ByName(x) == x.t = "string" /\ x.v # <<>> /\ ~isUuid(x.v)

\* resolveVariables of BATCH_RESOLVE_FOR_UPDATE_QUERY
UpdateResolveVariables(a) ==
  LET parsed == parseIssueIdentifier(a.id)
      keys == (IF ~isUuid(a.id) THEN {"teamKey", "issueNumber"} ELSE {})
                \cup (IF Len(LabelNames(a)) > 0 THEN {"labelNames"} ELSE {})
                \cup (IF ByName(a.projectId) THEN {"projectName"} ELSE {})
                \cup (IF ByName(a.milestoneId) THEN {"milestoneName"} ELSE {})
  IN [k \in keys |->
        CASE k = "teamKey" -> Str(parsed.teamKey)
          [] k = "issueNumber" -> parsed.issueNumber
          [] k = "labelNames" -> Arr(LabelNames(a))
          [] k = "projectName" -> a.projectId
          [] k = "milestoneName" -> a.milestoneId]

\* nodes of the remote
MilestoneNodes ==
  {[id |-> Uuid("4"), name |-> NameM1], [id |-> Uuid("8"), name |-> NameM1]}

BatchProjectNodes ==
  {[id |-> Uuid("1"), name |-> NameAlpha,
    projectMilestones |-> [nodes |-> <<>>]],
   [id |-> Uuid("2"), name |-> NameAlphaLower,
    projectMilestones |-> [nodes |-> <<[id |-> Uuid("4"), name |-> NameM1]>>]]}

LabelNodes ==
  {[id |-> Uuid("0"), name |-> NameBug], [id |-> Uuid("9"), name |-> NameBug]}

BatchIssueNodes ==
  {[id |-> Uuid("7"), labels |-> [nodes |-> <<[id |-> Uuid("9")]>>],
    team |-> Str(Uuid("3")),
    project |-> [projectMilestones |->
                   [nodes |-> <<[id |-> Uuid("8"), name |-> NameM1]>>]]],
   [id |-> Uuid("7"), labels |-> [nodes |-> <<>>],
    team |-> Undefined, project |-> Null]}

CycleNodes ==
  {[id |-> Uuid("1"), isActive |-> TRUE, isNext |-> FALSE, isPrevious |-> FALSE],
   [id |-> Uuid("2"), isActive |-> FALSE, isNext |-> TRUE, isPrevious |-> FALSE],
   [id |-> Uuid("3"), isActive |-> FALSE, isNext |-> FALSE, isPrevious |-> TRUE],
   [id |-> Uuid("4"), isActive |-> FALSE, isNext |-> FALSE, isPrevious |-> FALSE],
   [id |-> Uuid("5"), isActive |-> FALSE, isNext |-> FALSE, isPrevious |-> FALSE]}

NoBatchResult ==
  [ok |-> TRUE, issues |-> <<>>, labels |-> <<>>, projects |-> <<>>,
   milestones |-> <<>>, teams |-> <<>>, parentIssues |-> <<>>, users |-> <<>>]

\* The answers to BATCH_RESOLVE_FOR_UPDATE_QUERY.  A list the handler does not
\* read for these arguments is left empty; a list it reads is arbitrary, also
\* when its filter variable was left unset.
UpdateBatchResponses(a) ==
  LET readIssues == ~isUuid(a.id) \/ ByName(a.milestoneId) \/ ByName(a.cycleId)
                      \/ a.cycleId = Str(<<>>)
      readLabels == Len(LabelNames(a)) > 0
      readProjects == ByName(a.projectId)
                        \/ (Truthy(a.projectId) /\ ByName(a.milestoneId))
      readMilestones == ByName(a.milestoneId)
  IN {[NoBatchResult EXCEPT !.ok = FALSE]}
       \cup {[NoBatchResult EXCEPT !.issues = i, !.labels = l, !.projects = p,
                                   !.milestones = m] :
               i \in IF readIssues THEN SeqsNoRep(BatchIssueNodes, 1) ELSE {<<>>},
               l \in IF readLabels THEN SeqsNoRep(LabelNodes, MaxNodes)
                     ELSE {<<>>},
               p \in IF readProjects THEN SeqsNoRep(BatchProjectNodes, MaxNodes)
                     ELSE {<<>>},
               m \in IF readMilestones THEN SeqsNoRep(MilestoneNodes, MaxNodes)
                     ELSE {<<>>}}

\* the issue the update is applied to, and the labels it has now
UpdateResolveIssue(a, res) ==
  IF ~isUuid(a.id)
  THEN IF Len(res.issues) = 0
       THEN [err |-> Error("not_found", "Issue", a.id), id |-> a.id,
             labels |-> <<>>]
       ELSE [err |-> NoError, id |-> res.issues[1].id,
             labels |-> [i \in DOMAIN res.issues[1].labels.nodes |->
                           res.issues[1].labels.nodes[i].id]]
  ELSE [err |-> NoError, id |-> a.id, labels |-> <<>>]

\* label names replaced by the id of the first label of that name
ResolveLabelIds(labelIds, labelNodes) ==
  LET Missing(x) ==
        ~isUuid(x) /\ \A j \in DOMAIN labelNodes : labelNodes[j].name # x
      bad == FindIdx(labelIds, Missing)
      IdOf(x) ==
        IF isUuid(x) THEN x
        ELSE LET Named(l) == l.name = x
             IN labelNodes[FindIdx(labelNodes, Named)].id
  IN IF bad # 0
     THEN [err |-> Error("not_found", "Label", labelIds[bad]), ids |-> <<>>]
     ELSE [err |-> NoError, ids |-> [i \in DOMAIN labelIds |-> IdOf(labelIds[i])]]

\* finalLabelIds of updateIssue
UpdateFinalLabelIds(a, res, currentIssueLabels) ==
  IF a.labelIds.t = "array"
  THEN LET r == ResolveLabelIds(a.labelIds.v, res.labels)
       IN IF r.err # NoError THEN [err |-> r.err, val |-> Undefined]
          ELSE IF a.labelMode = "adding"
          THEN [err |-> NoError,
                val |-> Arr(Dedupe(currentIssueLabels \o r.ids))]
          ELSE [err |-> NoError, val |-> Arr(r.ids)]
  ELSE [err |-> NoError, val |-> a.labelIds]

\* variant: a project name without a match is passed on as it is
FinalProjectIdUnchecked(a, res) ==
  IF ByName(a.projectId) /\ Len(res.projects) > 0
  THEN [err |-> NoError, val |-> Str(res.projects[1].id)]
  ELSE [err |-> NoError, val |-> a.projectId]

\* finalProjectId of updateIssue, createIssue and searchIssues
FinalProjectId(a, res) ==
  IF ByName(a.projectId)
  THEN IF Len(res.projects) = 0
       THEN [err |-> Error("not_found", "Project", a.projectId.v),
             val |-> Undefined]
       ELSE [err |-> NoError, val |-> Str(res.projects[1].id)]
  ELSE [err |-> NoError, val |-> a.projectId]

\* the id of the first milestone of `nodes` named `name`, else `dflt`
MilestoneIn(nodes, name, dflt) ==
  LET Named(m) == m.name = name
      i == FindIdx(nodes, Named)
  IN IF i = 0 THEN dflt ELSE Str(nodes[i].id)

\* finalMilestoneId of updateIssue
UpdateFinalMilestoneId(a, res) ==
  IF ByName(a.milestoneId)
  THEN LET name == a.milestoneId.v
           inProject ==
             IF Truthy(a.projectId) /\ Len(res.projects) > 0
             THEN MilestoneIn(res.projects[1].projectMilestones.nodes, name,
                              a.milestoneId)
             ELSE a.milestoneId
           inIssue ==
             IF Truthy(inProject) /\ ~isUuid(inProject.v)
                  /\ Len(res.issues) > 0 /\ res.issues[1].project # Null
             THEN MilestoneIn(res.issues[1].project.projectMilestones.nodes,
                              name, inProject)
             ELSE inProject
           global ==
             IF Truthy(inIssue) /\ ~isUuid(inIssue.v) /\ Len(res.milestones) > 0
             THEN Str(res.milestones[1].id)
             ELSE inIssue
       IN IF ~Truthy(global) \/ ~isUuid(global.v)
          THEN [err |-> Error("not_found", "Milestone", name), val |-> Undefined]
          ELSE [err |-> NoError, val |-> global]
  ELSE [err |-> NoError, val |-> a.milestoneId]

\* what updateIssue computes from the batch answer before its next request
UpdateAfterBatch(a, res) ==
  LET issue == UpdateResolveIssue(a, res)
      labels == UpdateFinalLabelIds(a, res, issue.labels)
      project == FinalProjectId(a, res)
      milestone == UpdateFinalMilestoneId(a, res)
      err == IF issue.err # NoError THEN issue.err
             ELSE IF labels.err # NoError THEN labels.err
             ELSE IF project.err # NoError THEN project.err
             ELSE milestone.err
  IN [err |-> err, resolvedIssueId |-> Str(issue.id),
      finalLabelIds |-> labels.val,
      finalProjectId |-> project.val, finalMilestoneId |-> milestone.val]

\* the cycle is given by a string that is no UUID
CycleByName(a) == a.cycleId.t = "string" /\ ~isUuid(a.cycleId.v)

\* variant: of several cycles the next one is preferred to the active one
ChooseCycleNextFirst(nodes, current, ambiguous) ==
  LET Active(n) == n.isActive
      IsNext(n) == n.isNext
      Previous(n) == n.isPrevious
      chosen == IF FindIdx(nodes, IsNext) # 0 THEN FindIdx(nodes, IsNext)
                ELSE IF FindIdx(nodes, Active) # 0 THEN FindIdx(nodes, Active)
                ELSE FindIdx(nodes, Previous)
  IN IF Len(nodes) = 1 THEN [err |-> NoError, val |-> Str(nodes[1].id)]
     ELSE IF Len(nodes) > 1
     THEN IF chosen # 0 THEN [err |-> NoError, val |-> Str(nodes[chosen].id)]
          ELSE [err |-> ambiguous, val |-> current]
     ELSE [err |-> NoError, val |-> current]

\* scopedNodes / globalNodes of updateIssue: one node is taken, of several
\* the active, else the next, else the previous one
ChooseCycle(nodes, current, ambiguous) ==
  LET Active(n) == n.isActive
      IsNext(n) == n.isNext
      Previous(n) == n.isPrevious
      chosen == IF FindIdx(nodes, Active) # 0 THEN FindIdx(nodes, Active)
                ELSE IF FindIdx(nodes, IsNext) # 0 THEN FindIdx(nodes, IsNext)
                ELSE FindIdx(nodes, Previous)
  IN IF Len(nodes) = 1 THEN [err |-> NoError, val |-> Str(nodes[1].id)]
     ELSE IF Len(nodes) > 1
     THEN IF chosen # 0 THEN [err |-> NoError, val |-> Str(nodes[chosen].id)]
          ELSE [err |-> ambiguous, val |-> current]
     ELSE [err |-> NoError, val |-> current]

CycleResponses ==
  {[ok |-> FALSE, nodes |-> <<>>]}
    \cup {[ok |-> TRUE, nodes |-> n] : n \in SeqsNoRep(CycleNodes, MaxNodes)}

\* answers to GetIssueTeam: the issue with its team, or a null issue
IssueTeamResponses ==
  {[ok |-> FALSE, issue |-> FALSE, team |-> Undefined],
   [ok |-> TRUE, issue |-> FALSE, team |-> Undefined],
   [ok |-> TRUE, issue |-> TRUE, team |-> Str(Uuid("3"))]}

\* answers to the workflow-state lookup of LinearService.resolveStatusId
StatusResponses ==
  {[ok |-> FALSE, nodes |-> <<>>], [ok |-> TRUE, nodes |-> <<>>],
   [ok |-> TRUE, nodes |-> <<[id |-> Uuid("5"), name |-> NameDone]>>]}

\* LinearService.resolveStatusId: the workflow state of that name (in the team)
resolveStatusId(statusName, teamId, resp) ==
  LET req == Req("workflowStates", [name |-> Str(statusName), teamId |-> teamId])
  IN IF ~resp.ok
     THEN [sent |-> <<req>>, err |-> transportError(req.q), id |-> <<>>]
     ELSE IF Len(resp.nodes) = 0
     THEN [sent |-> <<req>>, err |-> notFoundError("Status", statusName),
           id |-> <<>>]
     ELSE [sent |-> <<req>>, err |-> NoError, id |-> resp.nodes[1].id]

\* the value updateInput gets for key k
UpdateInputValue(a, l, k) ==
  CASE k = "stateId" -> l.resolvedStatusId
    [] k = "projectId" -> l.finalProjectId
    [] k = "cycleId" -> l.finalCycleId
    [] k = "projectMilestoneId" -> l.finalMilestoneId
    [] k = "labelIds" -> l.finalLabelIds
    [] OTHER -> a[k]

UpdateInputNames ==
  {"title", "description", "stateId", "priority", "assigneeId", "projectId",
   "cycleId", "estimate", "parentId", "projectMilestoneId", "labelIds"}

\* variant: a field is written when its value is truthy
UpdateInputKeysTruthy(a, l) ==
  {k \in UpdateInputNames : Truthy(UpdateInputValue(a, l, k))}

\* the keys of updateInput: `if (x !== undefined) updateInput.k = x`
UpdateInputKeys(a, l) ==
  {k \in UpdateInputNames : UpdateInputValue(a, l, k) # Undefined}

\* updateInput
BuildUpdateInput(a, l) ==
  [k \in UpdateInputKeys(a, l) |-> UpdateInputValue(a, l, k)]

\* answers to the create / update mutation
IssueMutationResponses ==
  {[ok |-> FALSE, success |-> FALSE, issue |-> Null],
   [ok |-> TRUE, success |-> FALSE, issue |-> Null],
   [ok |-> TRUE, success |-> TRUE, issue |-> Null],
   [ok |-> TRUE, success |-> TRUE, issue |-> [id |-> Uuid("7")]]}

\* transformIssueData (the fields of the issue other than its id are not modelled)
transformIssueData(issue) == [id |-> Str(issue.id)]

\* ------------------------------------------------------------- createIssue
UpperCase ==
  <<"A", "B", "C", "D", "E", "F", "G", "H", "I", "J", "K", "L", "M",
    "N", "O", "P", "Q", "R", "S", "T", "U", "V", "W", "X", "Y", "Z">>

LowerCase ==
  <<"a", "b", "c", "d", "e", "f", "g", "h", "i", "j", "k", "l", "m",
    "n", "o", "p", "q", "r", "s", "t", "u", "v", "w", "x", "y", "z">>

toUpperCase(s) ==
  [i \in DOMAIN s |->
     IF \E j \in DOMAIN LowerCase : LowerCase[j] = s[i]
     THEN UpperCase[CHOOSE j \in DOMAIN LowerCase : LowerCase[j] = s[i]]
     ELSE s[i]]

toLowerCase(s) ==
  [i \in DOMAIN s |->
     IF \E j \in DOMAIN UpperCase : UpperCase[j] = s[i]
     THEN LowerCase[CHOOSE j \in DOMAIN UpperCase : UpperCase[j] = s[i]]
     ELSE s[i]]

\* /^[A-Z0-9]+$/i
IsAlphanumeric(s) ==
  /\ s # <<>>
  /\ \A i \in DOMAIN s :
       \/ IsDigit(s[i])
       \/ \E j \in DOMAIN UpperCase : UpperCase[j] = s[i] \/ LowerCase[j] = s[i]

\* "looks like a team key": at most five alphanumeric characters
isTeamKey(teamId) == Len(teamId) <= 5 /\ IsAlphanumeric(teamId)

NameCore == <<"C", "o", "r", "e">>
NameEngineering == <<"E", "n", "g", "i", "n", "e", "e", "r", "i", "n", "g">>

TeamNodes ==
  {[id |-> Uuid("3"), key |-> NameENG, name |-> NameEngineering],
   [id |-> Uuid("6"), key |-> <<"C", "O", "R">>, name |-> NameCore]}

CreateArgDomain ==
  [teamId |-> {Str(Uuid("3")), Str(<<"e", "n", "g">>), Str(NameCore)},
   description |-> {Str(<<"d">>)},
   assigneeId |-> {Str(Uuid("6"))},
   priority |-> {Num(0)},
   projectId |-> {Str(Uuid("d")), Str(NameAlpha)},
   statusId |-> {Str(Uuid("5")), Str(NameDone)},
   labelIds |-> {Arr(<<Uuid("e")>>), Arr(<<NameBug>>),
                 Arr(<<NameBug, Uuid("e")>>)},
   estimate |-> {Num(3)},
   parentId |-> {Str(Uuid("b")), Str(IssueENG2), Str(NotAnIdentifier)},
   milestoneId |-> {Str(Uuid("c")), Str(NameM1)},
   cycleId |-> {Str(Uuid("f")), Str(NameSprint)}]

CreateIssueArgs ==
  {("title" :> Str(<<"T">>)) @@ o : o \in SparseRecords(CreateArgDomain)}

\* tryParseIssueIdentifier: the parsed identifier, or null
tryParseIssueIdentifier(identifier) ==
  parseIssueIdentifier(identifier).err = NoError

\* teamKey / teamName of the batch queries: one is the value, the other null
TeamVariable(a, k) ==
  IF (k = "teamKey") = isTeamKey(a.teamId.v) THEN a.teamId ELSE Null

\* resolveVariables of BATCH_RESOLVE_FOR_CREATE_QUERY
CreateResolveVariables(a) ==
  LET keys == (IF ByName(a.teamId) THEN {"teamKey", "teamName"} ELSE {})
                \cup (IF ByName(a.projectId) THEN {"projectName"} ELSE {})
                \cup (IF ByName(a.milestoneId) THEN {"milestoneName"} ELSE {})
                \cup (IF Len(LabelNames(a)) > 0 THEN {"labelNames"} ELSE {})
                \cup (IF ByName(a.parentId) /\ tryParseIssueIdentifier(a.parentId.v)
                      THEN {"parentTeamKey", "parentIssueNumber"} ELSE {})
  IN [k \in keys |->
        CASE k \in {"teamKey", "teamName"} -> TeamVariable(a, k)
          [] k = "projectName" -> a.projectId
          [] k = "milestoneName" -> a.milestoneId
          [] k = "labelNames" -> Arr(LabelNames(a))
          [] k = "parentTeamKey" ->
               Str(parseIssueIdentifier(a.parentId.v).teamKey)
          [] k = "parentIssueNumber" ->
               parseIssueIdentifier(a.parentId.v).issueNumber]

ParentIssueNodes == {[id |-> Uuid("7")]}

\* The answers to BATCH_RESOLVE_FOR_CREATE_QUERY (see UpdateBatchResponses).
CreateBatchResponses(a) ==
  {[NoBatchResult EXCEPT !.ok = FALSE]}
    \cup {[NoBatchResult EXCEPT !.teams = t, !.projects = p, !.labels = l,
                                !.parentIssues = i, !.milestones = m] :
            t \in IF ByName(a.teamId) THEN SeqsNoRep(TeamNodes, MaxNodes)
                  ELSE {<<>>},
            p \in IF ByName(a.projectId) \/ ByName(a.milestoneId)
                  THEN SeqsNoRep(BatchProjectNodes, MaxNodes) ELSE {<<>>},
            l \in IF Len(LabelNames(a)) > 0 THEN SeqsNoRep(LabelNodes, MaxNodes)
                  ELSE {<<>>},
            i \in IF ByName(a.parentId) THEN SeqsNoRep(ParentIssueNodes, 1)
                  ELSE {<<>>},
            m \in IF ByName(a.milestoneId) THEN SeqsNoRep(MilestoneNodes, MaxNodes)
                  ELSE {<<>>}}

\* finalTeamId of createIssue and searchIssues: the first team of the answer,
\* provided its key or its name is the reference, letter case aside
FinalTeamId(a, res) ==
  IF ByName(a.teamId)
  THEN IF \/ Len(res.teams) = 0
          \/ /\ toUpperCase(res.teams[1].key) # toUpperCase(a.teamId.v)
             /\ toLowerCase(res.teams[1].name) # toLowerCase(a.teamId.v)
       THEN [err |-> Error("not_found", "Team", a.teamId.v), val |-> Undefined]
       ELSE [err |-> NoError, val |-> Str(res.teams[1].id)]
  ELSE [err |-> NoError, val |-> a.teamId]

\* finalLabelIds of createIssue
CreateFinalLabelIds(a, res) ==
  IF a.labelIds.t = "array"
  THEN LET r == ResolveLabelIds(a.labelIds.v, res.labels)
       IN IF r.err # NoError THEN [err |-> r.err, val |-> Undefined]
          ELSE [err |-> NoError, val |-> Arr(r.ids)]
  ELSE [err |-> NoError, val |-> a.labelIds]

\* finalParentId of createIssue
FinalParentId(a, res) ==
  IF ByName(a.parentId)
  THEN IF Len(res.parentIssues) = 0
       THEN [err |-> Error("not_found", "Parent issue", a.parentId.v),
             val |-> Undefined]
       ELSE [err |-> NoError, val |-> Str(res.parentIssues[1].id)]
  ELSE [err |-> NoError, val |-> a.parentId]

\* finalMilestoneId of createIssue
CreateFinalMilestoneId(a, res) ==
  IF ByName(a.milestoneId)
  THEN LET name == a.milestoneId.v
           inProject ==
             IF Len(res.projects) > 0
             THEN MilestoneIn(res.projects[1].projectMilestones.nodes, name,
                              a.milestoneId)
             ELSE a.milestoneId
           global ==
             IF ~Truthy(inProject) /\ Len(res.milestones) > 0
             THEN Str(res.milestones[1].id)
             ELSE inProject
       IN IF ~Truthy(global)
          THEN [err |-> Error("not_found", "Milestone", name), val |-> Undefined]
          ELSE [err |-> NoError, val |-> global]
  ELSE [err |-> NoError, val |-> a.milestoneId]

\* what createIssue computes from the batch answer before its next request
CreateAfterBatch(a, res) ==
  LET team == FinalTeamId(a, res)
      project == FinalProjectId(a, res)
      labels == CreateFinalLabelIds(a, res)
      parent == FinalParentId(a, res)
      milestone == CreateFinalMilestoneId(a, res)
      err == IF team.err # NoError THEN team.err
             ELSE IF project.err # NoError THEN project.err
             ELSE IF labels.err # NoError THEN labels.err
             ELSE IF parent.err # NoError THEN parent.err
             ELSE milestone.err
  IN [err |-> err, finalTeamId |-> team.val, finalProjectId |-> project.val,
      finalLabelIds |-> labels.val, finalParentId |-> parent.val,
      finalMilestoneId |-> milestone.val]

\* the first node of the `first: 1` cycle lookups of createIssue
FirstCycle(nodes, current) ==
  IF Len(nodes) > 0 THEN Str(nodes[1].id) ELSE current

\* createInput
BuildCreateInput(a, l) ==
  LET keys ==
        {"title"}
          \cup {k \in {"description", "assigneeId"} : Truthy(a[k])}
          \cup {k \in {"priority", "estimate"} : a[k] # Undefined}
          \cup (IF Truthy(l.finalTeamId) THEN {"teamId"} ELSE {})
          \cup (IF Truthy(l.finalProjectId) THEN {"projectId"} ELSE {})
          \cup (IF Truthy(l.resolvedStatusId) THEN {"stateId"} ELSE {})
          \cup (IF Truthy(l.finalLabelIds) /\ Len(l.finalLabelIds.v) > 0
                THEN {"labelIds"} ELSE {})
          \cup (IF Truthy(l.finalParentId) THEN {"parentId"} ELSE {})
          \cup (IF Truthy(l.finalMilestoneId)
                THEN {"projectMilestoneId"} ELSE {})
          \cup (IF Truthy(l.finalCycleId) THEN {"cycleId"} ELSE {})
  IN [k \in keys |->
        CASE k = "teamId" -> l.finalTeamId
          [] k = "projectId" -> l.finalProjectId
          [] k = "stateId" -> l.resolvedStatusId
          [] k = "labelIds" -> l.finalLabelIds
          [] k = "parentId" -> l.finalParentId
          [] k = "projectMilestoneId" -> l.finalMilestoneId
          [] k = "cycleId" -> l.finalCycleId
          [] OTHER -> a[k]]

\* ------------------------------------------------------------ searchIssues
EmailAddress == <<"a", "@", "b">>
NameBob == <<"b", "o", "b">>

SearchArgDomain ==
  [query |-> {Str(NameBug)},
   teamId |-> {Str(Uuid("3")), Str(<<"e", "n", "g">>), Str(NameCore)},
   assigneeId |-> {Str(Uuid("6")), Str(EmailAddress), Str(NameBob)},
   projectId |-> {Str(Uuid("d")), Str(NameAlpha)},
   status |-> {Arr(<<NameDone>>)},
   limit |-> {Num(5)}]

SearchIssuesArgs == SparseRecords(SearchArgDomain)

\* the assignee is looked up: a string with an "@" that is no UUID
ByEmail(x) == ByName(x) /\ \E i \in DOMAIN x.v : x.v[i] = "@"

\* needsResolve
NeedsResolve(a) ==
  ByName(a.teamId) \/ ByName(a.projectId) \/ ByName(a.assigneeId)

\* resolveVariables of BATCH_RESOLVE_FOR_SEARCH_QUERY
SearchResolveVariables(a) ==
  LET keys == (IF ByName(a.teamId) THEN {"teamKey", "teamName"} ELSE {})
                \cup (IF ByName(a.projectId) THEN {"projectName"} ELSE {})
                \cup (IF ByEmail(a.assigneeId) THEN {"assigneeEmail"} ELSE {})
  IN [k \in keys |->
        CASE k \in {"teamKey", "teamName"} -> TeamVariable(a, k)
          [] k = "projectName" -> a.projectId
          [] k = "assigneeEmail" -> a.assigneeId]

UserNodes == {[id |-> Uuid("6")]}

\* The answers to BATCH_RESOLVE_FOR_SEARCH_QUERY (see UpdateBatchResponses).
SearchBatchResponses(a) ==
  {[NoBatchResult EXCEPT !.ok = FALSE]}
    \cup {[NoBatchResult EXCEPT !.teams = t, !.projects = p, !.users = u] :
            t \in IF ByName(a.teamId) THEN SeqsNoRep(TeamNodes, MaxNodes)
                  ELSE {<<>>},
            p \in IF ByName(a.projectId)
                  THEN SeqsNoRep(BatchProjectNodes, MaxNodes) ELSE {<<>>},
            u \in IF ByEmail(a.assigneeId) THEN SeqsNoRep(UserNodes, 1)
                  ELSE {<<>>}}

\* finalAssigneeId of searchIssues
FinalAssigneeId(a, res) ==
  IF ByEmail(a.assigneeId)
  THEN IF Len(res.users) = 0
       THEN [err |-> Error("not_found", "User", a.assigneeId.v),
             val |-> Undefined]
       ELSE [err |-> NoError, val |-> Str(res.users[1].id)]
  ELSE [err |-> NoError, val |-> a.assigneeId]

\* what searchIssues computes from the batch answer before the search
SearchAfterBatch(a, res) ==
  LET team == FinalTeamId(a, res)
      project == FinalProjectId(a, res)
      assignee == FinalAssigneeId(a, res)
      err == IF team.err # NoError THEN team.err
             ELSE IF project.err # NoError THEN project.err
             ELSE assignee.err
  IN [err |-> err, finalTeamId |-> team.val, finalProjectId |-> project.val,
      finalAssigneeId |-> assignee.val]

\* issues the search may return
FoundIssues ==
  {[id |-> Uuid("7"), team |-> Uuid("3"), assignee |-> Str(Uuid("6")),
    project |-> Str(Uuid("d")), state |-> NameDone],
   [id |-> Uuid("8"), team |-> Uuid("6"), assignee |-> Undefined,
    project |-> Undefined, state |-> <<"T", "o", "d", "o">>]}

SearchResponses ==
  {[ok |-> FALSE, hasNodes |-> FALSE, nodes |-> <<>>],
   [ok |-> TRUE, hasNodes |-> FALSE, nodes |-> <<>>]}
    \cup {[ok |-> TRUE, hasNodes |-> TRUE, nodes |-> n] :
            n \in SeqsNoRep(FoundIssues, MaxNodes)}

\* the filter variable of FILTERED_SEARCH_ISSUES_QUERY
SearchFilter(a, l) ==
  LET keys == (IF Truthy(l.finalTeamId) THEN {"team"} ELSE {})
                \cup (IF Truthy(l.finalAssigneeId) THEN {"assignee"} ELSE {})
                \cup (IF Truthy(l.finalProjectId) THEN {"project"} ELSE {})
                \cup (IF a.status.t = "array" /\ Len(a.status.v) > 0
                      THEN {"state"} ELSE {})
  IN IF keys = {} THEN Undefined
     ELSE [k \in keys |->
             CASE k = "team" -> l.finalTeamId
               [] k = "assignee" -> l.finalAssigneeId
               [] k = "project" -> l.finalProjectId
               [] k = "state" -> a.status]

\* the filters applied to the results of the text search
SearchResultFilter(a, l, nodes) ==
  LET Keep(issue) ==
        /\ Truthy(l.finalTeamId) => Str(issue.team) = l.finalTeamId
        /\ Truthy(l.finalAssigneeId) => issue.assignee = l.finalAssigneeId
        /\ Truthy(l.finalProjectId) => issue.project = l.finalProjectId
        /\ (a.status.t = "array" /\ Len(a.status.v) > 0) =>
             \E i \in DOMAIN a.status.v : a.status.v[i] = issue.state
  IN SelectSeq(nodes, Keep)
\* ================================ LinearService lookups used by the commands
\* answers to a lookup of one entity by name, key or identifier
IdLookupResponses ==
  {[ok |-> FALSE, nodes |-> <<>>], [ok |-> TRUE, nodes |-> <<>>],
   [ok |-> TRUE, nodes |-> <<[id |-> Uuid("8")]>>]}

\* LinearService.resolveIssueId: an opaque id is returned as it is, an
\* identifier TEAM-123 is looked up
resolveIssueId(issueIdOrIdentifier, resp) ==
  IF isUuid(issueIdOrIdentifier)
  THEN [sent |-> <<>>, err |-> NoError, id |-> issueIdOrIdentifier]
  ELSE LET parsed == parseIssueIdentifier(issueIdOrIdentifier)
           req == Req("issues", [teamKey |-> Str(parsed.teamKey),
                                 issueNumber |-> parsed.issueNumber])
       IN IF parsed.err # NoError
          THEN [sent |-> <<>>, err |-> parsed.err, id |-> <<>>]
          ELSE IF ~resp.ok
          THEN [sent |-> <<req>>, err |-> transportError(req.q), id |-> <<>>]
          ELSE IF Len(resp.nodes) = 0
          THEN [sent |-> <<req>>,
                err |-> notFoundError("Issue", issueIdOrIdentifier), id |-> <<>>]
          ELSE [sent |-> <<req>>, err |-> NoError, id |-> resp.nodes[1].id]

\* LinearService.resolveProjectId: an opaque id is returned as it is, a name
\* is looked up
resolveProjectId(projectNameOrId, resp) ==
  IF isUuid(projectNameOrId)
  THEN [sent |-> <<>>, err |-> NoError, id |-> projectNameOrId]
  ELSE LET req == Req("projects", [name |-> Str(projectNameOrId)])
       IN IF ~resp.ok
          THEN [sent |-> <<req>>, err |-> transportError(req.q), id |-> <<>>]
          ELSE IF Len(resp.nodes) = 0
          THEN [sent |-> <<req>>,
                err |-> notFoundError("Project", projectNameOrId), id |-> <<>>]
          ELSE [sent |-> <<req>>, err |-> NoError, id |-> resp.nodes[1].id]

\* =================================================== GraphQLDocumentsService
DocId == <<"d", "1">>
TitleT == <<"T">>

\* https://linear.app/ws/document/my-doc-abc1
UrlLinearDocument ==
  <<"h", "t", "t", "p", "s", ":", "/", "/", "l", "i", "n", "e", "a", "r", ".",
    "a", "p", "p", "/", "w", "s", "/", "d", "o", "c", "u", "m", "e", "n", "t",
    "/", "m", "y", "-", "d", "o", "c", "-", "a", "b", "c", "1">>

\* the document the remote returns
DocumentEntity ==
  [id |-> DocId, title |-> TitleT, url |-> UrlLinearDocument]

\* answers to a mutation on one entity or to a query for one entity
EntityResponses(entity) ==
  {[ok |-> FALSE, success |-> FALSE, entity |-> Null],
   [ok |-> TRUE, success |-> FALSE, entity |-> Null],
   [ok |-> TRUE, success |-> TRUE, entity |-> entity]}

\* the present (not undefined) fields of a record
Present(rec) == [k \in {f \in DOMAIN rec : rec[f] # Undefined} |-> rec[k]]

\* createDocument: `Failed to create document "${title}" in project ... for team ...`
createDocument(input, resp) ==
  LET req == Req("CREATE_DOCUMENT_MUTATION", [input |-> Present(input)])
      named == <<input.title.v>>
                 \o (IF Truthy(input.projectId) THEN <<input.projectId.v>>
                     ELSE <<>>)
                 \o (IF Truthy(input.teamId) THEN <<input.teamId.v>> ELSE <<>>)
  IN IF ~resp.ok
     THEN [sent |-> <<req>>, err |-> transportError(req.q), val |-> Undefined]
     ELSE IF ~resp.success
     THEN [sent |-> <<req>>,
           err |-> Error("remote_failure", "create document", named),
           val |-> Undefined]
     ELSE [sent |-> <<req>>, err |-> NoError, val |-> resp.entity]

\* updateDocument: `Failed to update document: ${id}`
updateDocument(id, input, resp) ==
  LET req == Req("UPDATE_DOCUMENT_MUTATION", [id |-> Str(id), input |-> input])
  IN IF ~resp.ok
     THEN [sent |-> <<req>>, err |-> transportError(req.q), val |-> Undefined]
     ELSE IF ~resp.success
     THEN [sent |-> <<req>>,
           err |-> Error("remote_failure", "update document", <<id>>),
           val |-> Undefined]
     ELSE [sent |-> <<req>>, err |-> NoError, val |-> resp.entity]

\* getDocument: `Document not found: ${id}`
getDocument(id, resp) ==
  LET req == Req("GET_DOCUMENT_QUERY", [id |-> Str(id)])
  IN IF ~resp.ok
     THEN [sent |-> <<req>>, err |-> transportError(req.q), val |-> Undefined]
     ELSE IF resp.entity = Null
     THEN [sent |-> <<req>>, err |-> Error("not_found", "Document", id),
           val |-> Undefined]
     ELSE [sent |-> <<req>>, err |-> NoError, val |-> resp.entity]

\* answers to the list queries for documents
DocumentListResponses ==
  {[ok |-> FALSE, nodes |-> <<>>], [ok |-> TRUE, nodes |-> <<>>],
   [ok |-> TRUE, nodes |-> <<DocumentEntity>>]}

\* listDocuments: the project filter when a project is given, first ?? 50
listDocuments(options, resp) ==
  LET filter == IF Truthy(options.projectId)
                THEN [project |-> [id |-> [eq |-> options.projectId]]]
                ELSE Undefined
      first == IF options.first \in {Undefined, Null} THEN Num(50)
               ELSE options.first
      req == Req("LIST_DOCUMENTS_QUERY", [first |-> first, filter |-> filter])
  IN IF ~resp.ok
     THEN [sent |-> <<req>>, err |-> transportError(req.q), val |-> Undefined]
     ELSE [sent |-> <<req>>, err |-> NoError, val |-> Arr(resp.nodes)]

\* listDocumentsBySlugIds: the documents with one of the slug ids, at most limit
listDocumentsBySlugIds(slugIds, limit, resp) ==
  LET req == Req("LIST_DOCUMENTS_BY_SLUG_IDS",
                 [first |-> limit, slugIds |-> Arr(slugIds)])
  IN IF ~resp.ok
     THEN [sent |-> <<req>>, err |-> transportError(req.q), val |-> Undefined]
     ELSE [sent |-> <<req>>, err |-> NoError, val |-> Arr(resp.nodes)]

\* deleteDocument: `Failed to delete document: ${id}`
deleteDocument(id, resp) ==
  LET req == Req("DELETE_DOCUMENT_MUTATION", [id |-> Str(id)])
  IN IF ~resp.ok
     THEN [sent |-> <<req>>, err |-> transportError(req.q), val |-> Undefined]
     ELSE IF ~resp.success
     THEN [sent |-> <<req>>,
           err |-> Error("remote_failure", "delete document", <<id>>),
           val |-> Undefined]
     ELSE [sent |-> <<req>>, err |-> NoError, val |-> True]

\* ================================================= GraphQLAttachmentsService
AttachmentId == <<"a", "1">>

\* https://example.com/x
UrlExample ==
  <<"h", "t", "t", "p", "s", ":", "/", "/", "e", "x", "a", "m", "p", "l", "e",
    ".", "c", "o", "m", "/", "x">>

\* a string that is no URL
UrlMalformed == <<"n", "o", "t", " ", "a", " ", "u", "r", "l">>

\* https://linear.app/ws/document/abc1 (a slug without a hyphen)
UrlLinearDocumentBare ==
  SubSeq(UrlLinearDocument, 1, 31) \o <<"a", "b", "c", "1">>

\* https://linear.app/ws/issue/ENG-1
UrlLinearIssue ==
  SubSeq(UrlLinearDocument, 1, 22)
    \o <<"i", "s", "s", "u", "e", "/", "E", "N", "G", "-", "1">>

\* the attachment the remote returns for a create
AttachmentEntity(input) ==
  [id |-> AttachmentId, url |-> input.url.v, title |-> input.title.v]
\* variant: the error names the issue only
createAttachmentIssueOnly(input, resp) ==
  LET req == Req("CREATE_ATTACHMENT_MUTATION", [input |-> Present(input)])
  IN IF ~resp.ok
     THEN [sent |-> <<req>>, err |-> transportError(req.q), val |-> Undefined]
     ELSE IF ~resp.success
     THEN [sent |-> <<req>>,
           err |-> Error("remote_failure", "create attachment",
                         <<input.issueId.v>>),
           val |-> Undefined]
     ELSE [sent |-> <<req>>, err |-> NoError, val |-> resp.entity]

\* createAttachment:
\* `Failed to create attachment on issue ${issueId} for URL "${url}"`
createAttachment(input, resp) ==
  LET req == Req("CREATE_ATTACHMENT_MUTATION", [input |-> Present(input)])
  IN IF ~resp.ok
     THEN [sent |-> <<req>>, err |-> transportError(req.q), val |-> Undefined]
     ELSE IF ~resp.success
     THEN [sent |-> <<req>>,
           err |-> Error("remote_failure", "create attachment",
                         <<input.issueId.v, input.url.v>>),
           val |-> Undefined]
     ELSE [sent |-> <<req>>, err |-> NoError, val |-> resp.entity]
\* variant: the success flag of the answer is not looked at
deleteAttachmentUnchecked(id, resp) ==
  LET req == Req("DELETE_ATTACHMENT_MUTATION", [id |-> Str(id)])
  IN IF ~resp.ok
     THEN [sent |-> <<req>>, err |-> transportError(req.q), val |-> Undefined]
     ELSE [sent |-> <<req>>, err |-> NoError, val |-> True]

\* deleteAttachment: `Failed to delete attachment: ${id}`
deleteAttachment(id, resp) ==
  LET req == Req("DELETE_ATTACHMENT_MUTATION", [id |-> Str(id)])
  IN IF ~resp.ok
     THEN [sent |-> <<req>>, err |-> transportError(req.q), val |-> Undefined]
     ELSE IF ~resp.success
     THEN [sent |-> <<req>>,
           err |-> Error("remote_failure", "delete attachment", <<id>>),
           val |-> Undefined]
     ELSE [sent |-> <<req>>, err |-> NoError, val |-> True]

\* the attachments an issue may have
AttachmentNodes ==
  {[id |-> <<"a", "1">>, url |-> UrlLinearDocument],
   [id |-> <<"a", "2">>, url |-> UrlLinearDocumentBare],
   [id |-> <<"a", "3">>, url |-> UrlExample],
   [id |-> <<"a", "4">>, url |-> UrlMalformed],
   [id |-> <<"a", "5">>, url |-> UrlLinearIssue]}

\* answers to LIST_ATTACHMENTS_QUERY: the issue with its attachments, or null
AttachmentListResponses ==
  {[ok |-> FALSE, issue |-> FALSE, nodes |-> <<>>],
   [ok |-> TRUE, issue |-> FALSE, nodes |-> <<>>]}
    \cup {[ok |-> TRUE, issue |-> TRUE, nodes |-> n] :
            n \in SeqsNoRep(AttachmentNodes, MaxNodes)}

\* listAttachments: `Issue not found: ${issueId}`
listAttachments(issueId, resp) ==
  LET req == Req("LIST_ATTACHMENTS_QUERY", [issueId |-> Str(issueId)])
  IN IF ~resp.ok
     THEN [sent |-> <<req>>, err |-> transportError(req.q), val |-> Undefined]
     ELSE IF ~resp.issue
     THEN [sent |-> <<req>>, err |-> Error("not_found", "Issue", issueId),
           val |-> Undefined]
     ELSE [sent |-> <<req>>, err |-> NoError, val |-> Arr(resp.nodes)]

\* ======================================================= commands/documents
\* String.prototype.includes
Includes(s, sub) ==
  \E i \in 1..(Len(s) - Len(sub) + 1) : SubSeq(s, i, i + Len(sub) - 1) = sub

\* String.prototype.split at a one-character separator
RECURSIVE Split(_, _)
Split(s, sep) ==
  LET at == {i \in DOMAIN s : s[i] = sep}
  IN IF at = {} THEN <<s>>
     ELSE <<SubSeq(s, 1, Min(at) - 1)>>
            \o Split(SubSeq(s, Min(at) + 1, Len(s)), sep)

\* new URL(url): scheme "://" host path; `ok` is false where the constructor
\* throws (no scheme, or no host)
ParseUrl(url) ==
  LET colons == {i \in DOMAIN url : url[i] = ":"}
      c == Min(colons)
      rest == SubSeq(url, c + 3, Len(url))
      slashes == {i \in DOMAIN rest : rest[i] = "/"}
      hostEnd == IF slashes = {} THEN Len(rest) ELSE Min(slashes) - 1
      host == SubSeq(rest, 1, hostEnd)
  IN IF \/ colons = {}
        \/ c = 1
        \/ SubSeq(url, c, c + 2) # <<":", "/", "/">>
        \/ \E i \in 1..(c - 1) : url[i] \in {" ", "/"}
        \/ host = <<>>
        \/ \E i \in DOMAIN host : host[i] = " "
     THEN [ok |-> FALSE, hostname |-> <<>>, pathname |-> <<>>]
     ELSE [ok |-> TRUE, hostname |-> host,
           pathname |-> IF slashes = {} THEN <<"/">>
                        ELSE SubSeq(rest, hostEnd + 1, Len(rest))]

\* extractDocumentIdFromUrl: the slug id of a Linear document URL, else null
extractDocumentIdFromUrl(url) ==
  LET parsed == ParseUrl(url)
      pathParts == Split(parsed.pathname, "/")
      docAt == {i \in DOMAIN pathParts : pathParts[i] = <<"d", "o", "c", "u", "m", "e", "n", "t">>}
      docIndex == Min(docAt)
      docSlug == pathParts[docIndex + 1]
      hyphens == {i \in DOMAIN docSlug : docSlug[i] = "-"}
      lastHyphenIndex == CHOOSE i \in hyphens : \A j \in hyphens : j <= i
      tail == SubSeq(docSlug, lastHyphenIndex + 1, Len(docSlug))
  IN IF ~parsed.ok THEN Null
     ELSE IF ~Includes(parsed.hostname, <<"l", "i", "n", "e", "a", "r", ".", "a", "p", "p">>)
     THEN Null
     ELSE IF docAt = {} \/ docIndex >= Len(pathParts) THEN Null
     ELSE IF hyphens = {}
     THEN (IF docSlug = <<>> THEN Null ELSE Str(docSlug))
     ELSE IF tail = <<>> THEN Null ELSE Str(tail)
\* variant: the slug ids are not deduplicated
DocumentSlugIdsWithDuplicates(attachments) ==
  LET ids == [i \in DOMAIN attachments |->
                extractDocumentIdFromUrl(attachments[i].url)]
      NotNull(x) == x # Null
      kept == SelectSeq(ids, NotNull)
  IN [i \in DOMAIN kept |-> kept[i].v]

\* the slug ids of the attachments, without nulls and without duplicates
DocumentSlugIds(attachments) ==
  LET ids == [i \in DOMAIN attachments |->
                extractDocumentIdFromUrl(attachments[i].url)]
      NotNull(x) == x # Null
      kept == SelectSeq(ids, NotNull)
  IN Dedupe([i \in DOMAIN kept |-> kept[i].v])

DocumentCmds ==
  {"documents create", "documents update", "documents read", "documents list",
   "documents delete"}

AttachmentCmds == {"attachments create", "attachments list", "attachments delete"}

\* DocumentCreateOptions / DocumentUpdateOptions / DocumentListOptions
DocumentOptionDomain(c) ==
  CASE c = "documents create" ->
         [content |-> {Str(<<"c">>)},
          project |-> {Str(Uuid("d")), Str(NameAlpha)},
          team |-> {Str(NameENG)},
          icon |-> {Str(<<"i">>)},
          color |-> {Str(<<"#", "f", "f", "f">>)},
          attachTo |-> {Str(IssueENG1), Str(Uuid("a"))}]
    [] c = "documents update" ->
         [title |-> {Str(TitleT), Str(<<>>)},
          content |-> {Str(<<"c">>), Str(<<>>)},
          project |-> {Str(Uuid("d")), Str(NameAlpha)},
          icon |-> {Str(<<"i">>)},
          color |-> {Str(<<>>)}]
    [] c = "documents list" ->
         [project |-> {Str(Uuid("d")), Str(NameAlpha)},
          issue |-> {Str(IssueENG1)},
          limit |-> {Str(<<"5">>), Str(<<"0">>), Str(<<"-", "1">>),
                     Str(<<"a", "b", "c">>), Str(<<"3", "x">>), Str(<<>>)}]
    [] OTHER -> [none |-> {Undefined}]

\* the arguments of a documents command: <documentId> and the options
DocumentArgs(c) ==
  {[documentId |-> DocId,
    options |-> IF c = "documents create" THEN ("title" :> Str(TitleT)) @@ o
                ELSE o] :
     o \in SparseRecords(DocumentOptionDomain(c))}

\* AttachmentCreateOptions / AttachmentListOptions
AttachmentOptionDomain(c) ==
  CASE c = "attachments create" ->
         [subtitle |-> {Str(<<"s">>)},
          comment |-> {Str(<<"c">>)},
          iconUrl |-> {Str(UrlExample)}]
    [] OTHER -> [none |-> {Undefined}]

\* the arguments of an attachments command: <attachmentId>, the required
\* options and the optional ones
AttachmentArgs(c) ==
  {[attachmentId |-> AttachmentId,
    options |-> ("issue" :> Str(i)) @@ ("url" :> Str(UrlExample))
                  @@ ("title" :> Str(TitleT)) @@ o] :
     i \in {IssueENG1, Uuid("a"), NotAnIdentifier},
     o \in SparseRecords(AttachmentOptionDomain(c))}

\* `documents list`: --project and --issue exclude each other
ValidateListOptions(options) ==
  IF Truthy(options.project) /\ Truthy(options.issue)
  THEN Error("validation", "--project and --issue", <<>>)
  ELSE NoError

\* parseInt(options.limit || "50", 10)
ListLimit(options) ==
  parseInt(IF Truthy(options.limit) THEN options.limit.v ELSE <<"5", "0">>)

\* `Invalid limit "${options.limit}": must be a positive number`
ValidateLimit(options) ==
  LET limit == ListLimit(options)
  IN IF limit = NaN \/ limit.v < 1
     THEN Error("validation", "Invalid limit", options.limit.v)
     ELSE NoError

\* the input of `documents update`: `if (options.k) input.k = options.k`
BuildDocumentInput(options, projectId) ==
  LET keys == {k \in {"title", "content", "icon", "color"} :
                 Truthy(options[k])}
                \cup (IF Truthy(options.project) THEN {"projectId"} ELSE {})
  IN [k \in keys |-> IF k = "projectId" THEN projectId ELSE options[k]]
\* -------------------------------------------------------- `projects create`
\* ProjectCreateOptions; --team is required
ProjectCreateArgs ==
  {[name |-> NameAlpha, options |-> ("team" :> Str(t)) @@ o] :
     t \in {Uuid("c"), NameENG},
     o \in SparseRecords([description |-> {Str(<<>>)},
                          lead |-> {Str(Uuid("b"))},
                          priority |-> {Str(<<"2">>), Str(<<"0">>)},
                          startDate |-> {Str(DateStr)}])}

\* the variables of CREATE_PROJECT_MUTATION
BuildCreateVars(name, options, teamId) ==
  Present([name |-> Str(name), teamIds |-> Arr(<<teamId>>),
           description |-> options.description,
           leadId |-> options.lead,
           priority |-> IF Truthy(options.priority)
                        THEN parseInt(options.priority.v) ELSE Undefined,
           startDate |-> options.startDate])

\* ------------------------------------------------------------------- state
LocNames ==
  {"projectId", "updateVars", "result", "resolvedIssueId", "finalLabelIds",
   "finalProjectId", "finalMilestoneId", "finalCycleId", "teamIdForCycle", "resolvedStatusId", "teamId",
   "finalTeamId", "finalParentId", "finalAssigneeId", "limit", "issueId",
   "document", "slugIds", "returned", "settled"}

InitLoc == [k \in LocNames |-> Undefined]

NoAnswer == [ok |-> FALSE]

\* the remote before the first invocation: no attachments; `next` numbers the
\* attachments it creates
EmptyRemote == [attachments |-> <<>>, next |-> 1]

\* what the outputs so far tell: no invocation has finished
EmptySession == [live |-> {}, deleted |-> {}]

NoOutcome == [kind |-> "none", err |-> NoError, value |-> Undefined]

Throw(e) == [kind |-> "error", err |-> e, value |-> Undefined]

Success(v) == [kind |-> "success", err |-> NoError, value |-> v]

IssueCmds == {"updateIssue", "createIssue", "searchIssues"}

Init ==
  /\ cmd \in ProjectCmds \cup IssueCmds \cup DocumentCmds \cup AttachmentCmds
              \cup {"projects create"}
  /\ args \in CASE cmd \in ProjectCmds -> ProjectArgs(cmd)
              [] cmd = "projects create" -> ProjectCreateArgs
              [] cmd \in DocumentCmds -> DocumentArgs(cmd)
              [] cmd \in AttachmentCmds -> AttachmentArgs(cmd)
              [] cmd = "updateIssue" -> UpdateIssueArgs
              [] cmd = "createIssue" -> CreateIssueArgs
              [] cmd = "searchIssues" -> SearchIssuesArgs
  /\ pc = "start"
  /\ requests = <<>>
  /\ answer = NoAnswer
  /\ loc = InitLoc
  /\ outcome = NoOutcome
  /\ remote = EmptyRemote
  /\ session = EmptySession

\* the log and the last answer after the requests `sent`, the last of them
\* answered `resp`
Exchange(sent, resp) ==
  /\ requests' = requests \o sent
  /\ answer' = IF sent = <<>> THEN answer ELSE resp

\* handleAsyncCommand: a thrown error ends the invocation with the error output
Fail(e, sent, resp) ==
  /\ pc' = "done"
  /\ outcome' = Throw(e)
  /\ Exchange(sent, resp)
  /\ UNCHANGED <<cmd, args, loc>>

\* validation of the flags, then createGraphQLService / createLinearService
ProjectsStart ==
  /\ pc = "start"
  /\ cmd \in ProjectCmds
  /\ LET v == IF cmd = "projects update"
              THEN ValidateUpdateOptions(args.options) ELSE NoError
     IN IF v # NoError
        THEN Fail(v, <<>>, answer)
        ELSE \E created \in BOOLEAN :
               IF created
               THEN /\ pc' = "resolve"
                    /\ UNCHANGED <<cmd, args, requests, answer, loc, outcome>>
               ELSE Fail(Error("auth", "api token", <<>>), <<>>, answer)
  /\ UNCHANGED <<remote, session>>

\* resolveProjectIdFromGraphQL, and for `projects update` the update variables
ProjectsResolve ==
  /\ pc = "resolve"
  /\ cmd \in ProjectCmds
  /\ \E resp \in FindProjectResponses :
       LET r == resolveProjectIdFromGraphQL(args.projectIdOrName, resp)
       IN IF r.err # NoError
          THEN Fail(r.err, r.sent, resp)
          ELSE /\ Exchange(r.sent, resp)
               /\ loc' = [loc EXCEPT
                    !.result = IF r.sent = <<>> THEN @ ELSE resp,
                    !.projectId = Str(r.id),
                    !.updateVars =
                       IF cmd = "projects update"
                       THEN BuildUpdateVars(args.options, r.id) ELSE @]
               /\ pc' = IF cmd = "projects update"
                           /\ args.options.team # Undefined
                        THEN "team" ELSE "send"
               /\ UNCHANGED <<cmd, args, outcome>>
  /\ UNCHANGED <<remote, session>>

\* `projects update --team`: linearService.resolveTeamId
ProjectsResolveTeam ==
  /\ pc = "team"
  /\ cmd = "projects update"
  /\ \E resp \in TeamLookupResponses :
       LET r == resolveTeamId(args.options.team.v, resp)
       IN IF r.err # NoError
          THEN Fail(r.err, r.sent, resp)
          ELSE /\ Exchange(r.sent, resp)
               /\ loc' = [loc EXCEPT
                    !.updateVars = ("teamIds" :> Arr(<<r.id>>)) @@ @]
               /\ pc' = "send"
               /\ UNCHANGED <<cmd, args, outcome>>
  /\ UNCHANGED <<remote, session>>

\* variant: the request carries the reference as the user typed it
ProjectsSendRequestRawReference ==
  CASE cmd = "projects read" ->
         Req("GET_PROJECT_BY_ID_QUERY", [id |-> Str(args.projectIdOrName)])
    [] cmd = "projects update" ->
         Req("UPDATE_PROJECT_MUTATION",
             [loc.updateVars EXCEPT !.id = Str(args.projectIdOrName)])
    [] cmd = "projects archive" ->
         Req("ARCHIVE_PROJECT_MUTATION", [id |-> Str(args.projectIdOrName)])

\* the request of the command, with the resolved project id
ProjectsSendRequest ==
  CASE cmd = "projects read" ->
         Req("GET_PROJECT_BY_ID_QUERY", [id |-> loc.projectId])
    [] cmd = "projects update" ->
         Req("UPDATE_PROJECT_MUTATION", loc.updateVars)
    [] cmd = "projects archive" ->
         Req("ARCHIVE_PROJECT_MUTATION", [id |-> loc.projectId])

\* the read query or the mutation, and the output
ProjectsSend ==
  /\ pc = "send"
  /\ cmd \in ProjectCmds
  /\ \E resp \in ProjectOpResponses :
       LET req == ProjectsSendRequest
       IN IF ~resp.ok
          THEN Fail(transportError(req.q), <<req>>, resp)
          ELSE IF cmd = "projects read" /\ ~resp.found
          THEN Fail(notFoundError("Project", args.projectIdOrName), <<req>>, resp)
          ELSE IF cmd = "projects update" /\ ~resp.success
          THEN Fail(Error("remote_failure", "Failed to update project", <<>>),
                    <<req>>, resp)
          ELSE IF cmd = "projects archive" /\ ~resp.success
          THEN Fail(Error("remote_failure", "Failed to archive project", <<>>),
                    <<req>>, resp)
          ELSE /\ Exchange(<<req>>, resp)
               /\ outcome' =
                    Success(IF cmd = "projects archive"
                            THEN [archived |-> True, id |-> loc.projectId]
                            ELSE transformProject(ProjectEntity(loc.projectId.v)))
               /\ pc' = "done"
               /\ UNCHANGED <<cmd, args, loc>>
  /\ UNCHANGED <<remote, session>>

\* --------------------------------------------------- updateIssue, stepwise
StatusByName(a) == Truthy(a.statusId) /\ ~isUuid(a.statusId.v)

\* after the cycle is settled: the status, else the mutation
PcAfterCycle(a, resolvedIssueId) ==
  IF StatusByName(a)
  THEN IF cmd = "updateIssue" /\ Truthy(resolvedIssueId)
            /\ isUuid(resolvedIssueId.v)
       THEN "statusTeam" ELSE "statusResolve"
  ELSE "mutate"

\* after the scoped lookup (or without one): `if (!finalCycleId)` the global one
PcAfterScoped(a, finalCycleId, resolvedIssueId) ==
  IF ~Truthy(finalCycleId) THEN "cycleGlobal"
  ELSE PcAfterCycle(a, resolvedIssueId)

\* after the batch answer of updateIssue was processed
UpdatePcAfterBatch(a, resolvedIssueId, teamIdForCycle) ==
  IF CycleByName(a)
  THEN IF ~Truthy(teamIdForCycle) /\ Truthy(resolvedIssueId)
            /\ isUuid(resolvedIssueId.v)
       THEN "cycleTeam"
       ELSE IF Truthy(teamIdForCycle) THEN "cycleScoped"
       ELSE PcAfterScoped(a, a.cycleId, resolvedIssueId)
  ELSE PcAfterCycle(a, resolvedIssueId)

\* resolveVariables, the batch request and everything computed from its answer
UpdateBatchResolve ==
  /\ pc = "start"
  /\ cmd = "updateIssue"
  /\ IF ~isUuid(args.id) /\ parseIssueIdentifier(args.id).err # NoError
     THEN Fail(parseIssueIdentifier(args.id).err, <<>>, answer)
     ELSE \E resp \in UpdateBatchResponses(args) :
            LET req == Req("BATCH_RESOLVE_FOR_UPDATE_QUERY",
                           UpdateResolveVariables(args))
                r == UpdateAfterBatch(args, resp)
                team == IF CycleByName(args) /\ Len(resp.issues) > 0
                        THEN resp.issues[1].team ELSE Undefined
            IN IF ~resp.ok THEN Fail(transportError(req.q), <<req>>, resp)
               ELSE IF r.err # NoError THEN Fail(r.err, <<req>>, resp)
               ELSE /\ Exchange(<<req>>, resp)
                    /\ loc' = [loc EXCEPT
                         !.resolvedIssueId = r.resolvedIssueId,
                         !.finalLabelIds = r.finalLabelIds,
                         !.finalProjectId = r.finalProjectId,
                         !.finalMilestoneId = r.finalMilestoneId,
                         !.finalCycleId = args.cycleId,
                         !.resolvedStatusId = args.statusId,
                         !.teamIdForCycle = team]
                    /\ pc' = UpdatePcAfterBatch(args, r.resolvedIssueId, team)
                    /\ UNCHANGED <<cmd, args, outcome>>
  /\ UNCHANGED <<remote, session>>

\* GetIssueTeam: the team that scopes the cycle lookup
UpdateCycleTeam ==
  /\ pc = "cycleTeam"
  /\ cmd = "updateIssue"
  /\ \E resp \in IssueTeamResponses :
       LET req == Req("GetIssueTeam", [issueId |-> loc.resolvedIssueId])
       IN IF ~resp.ok THEN Fail(transportError(req.q), <<req>>, resp)
          ELSE /\ Exchange(<<req>>, resp)
               /\ loc' = [loc EXCEPT !.teamIdForCycle = resp.team]
               /\ pc' = IF Truthy(resp.team) THEN "cycleScoped"
                        ELSE PcAfterScoped(args, loc.finalCycleId,
                                           loc.resolvedIssueId)
               /\ UNCHANGED <<cmd, args, outcome>>
  /\ UNCHANGED <<remote, session>>

\* FindCycleScoped of updateIssue
UpdateCycleScoped ==
  /\ pc = "cycleScoped"
  /\ cmd = "updateIssue"
  /\ \E resp \in CycleResponses :
       LET req == Req("FindCycleScoped",
                      [name |-> args.cycleId, teamId |-> loc.teamIdForCycle])
           r == ChooseCycle(resp.nodes, loc.finalCycleId,
                            Error("ambiguous", "cycle", args.cycleId.v))
       IN IF ~resp.ok THEN Fail(transportError(req.q), <<req>>, resp)
          ELSE IF r.err # NoError THEN Fail(r.err, <<req>>, resp)
          ELSE /\ Exchange(<<req>>, resp)
               /\ loc' = [loc EXCEPT !.finalCycleId = r.val]
               /\ pc' = PcAfterScoped(args, r.val, loc.resolvedIssueId)
               /\ UNCHANGED <<cmd, args, outcome>>
  /\ UNCHANGED <<remote, session>>

\* answers to the `first: 1` cycle lookups of createIssue
CreateCycleResponses ==
  {[ok |-> FALSE, nodes |-> <<>>]}
    \cup {[ok |-> TRUE, nodes |-> n] : n \in SeqsNoRep(CycleNodes, 1)}

\* FindCycleGlobal of updateIssue and createIssue, sent `if (!finalCycleId)`
IssueCycleGlobal ==
  /\ pc = "cycleGlobal"
  /\ cmd \in {"updateIssue", "createIssue"}
  /\ \E resp \in IF cmd = "updateIssue" THEN CycleResponses
                 ELSE CreateCycleResponses :
       LET req == Req("FindCycleGlobal", [name |-> args.cycleId])
           r == IF cmd = "updateIssue"
                THEN ChooseCycle(resp.nodes, loc.finalCycleId,
                                 Error("ambiguous", "cycle", args.cycleId.v))
                ELSE [err |-> NoError,
                      val |-> FirstCycle(resp.nodes, loc.finalCycleId)]
       IN IF ~resp.ok THEN Fail(transportError(req.q), <<req>>, resp)
          ELSE IF r.err # NoError THEN Fail(r.err, <<req>>, resp)
          ELSE IF ~Truthy(r.val)
          THEN Fail(Error("not_found", "Cycle", args.cycleId.v), <<req>>, resp)
          ELSE /\ Exchange(<<req>>, resp)
               /\ loc' = [loc EXCEPT !.finalCycleId = r.val]
               /\ pc' = PcAfterCycle(args, loc.resolvedIssueId)
               /\ UNCHANGED <<cmd, args, outcome>>
  /\ UNCHANGED <<remote, session>>

\* GetIssueTeam: the team whose workflow states are searched
UpdateStatusTeam ==
  /\ pc = "statusTeam"
  /\ cmd = "updateIssue"
  /\ \E resp \in IssueTeamResponses :
       LET req == Req("GetIssueTeam", [issueId |-> loc.resolvedIssueId])
       IN IF ~resp.ok THEN Fail(transportError(req.q), <<req>>, resp)
          ELSE /\ Exchange(<<req>>, resp)
               /\ loc' = [loc EXCEPT !.teamId = resp.team]
               /\ pc' = "statusResolve"
               /\ UNCHANGED <<cmd, args, outcome>>
  /\ UNCHANGED <<remote, session>>

\* linearService.resolveStatusId
IssueStatusResolve ==
  /\ pc = "statusResolve"
  /\ cmd \in IssueCmds
  /\ \E resp \in StatusResponses :
       LET r == resolveStatusId(args.statusId.v,
                  IF cmd = "updateIssue" THEN loc.teamId ELSE loc.finalTeamId,
                  resp)
       IN IF r.err # NoError THEN Fail(r.err, r.sent, resp)
          ELSE /\ Exchange(r.sent, resp)
               /\ loc' = [loc EXCEPT !.resolvedStatusId = Str(r.id)]
               /\ pc' = "mutate"
               /\ UNCHANGED <<cmd, args, outcome>>
  /\ UNCHANGED <<remote, session>>

\* the update mutation and the issue it returns
UpdateMutate ==
  /\ pc = "mutate"
  /\ cmd = "updateIssue"
  /\ \E resp \in IssueMutationResponses :
       LET req == Req("UPDATE_ISSUE_MUTATION",
                      [id |-> loc.resolvedIssueId,
                       input |-> BuildUpdateInput(args, loc)])
       IN IF ~resp.ok THEN Fail(transportError(req.q), <<req>>, resp)
          ELSE IF ~resp.success
          THEN Fail(Error("remote_failure", "Failed to update issue", <<>>),
                    <<req>>, resp)
          ELSE IF resp.issue = Null
          THEN Fail(Error("remote_failure", "Failed to retrieve updated issue",
                          <<>>), <<req>>, resp)
          ELSE /\ Exchange(<<req>>, resp)
               /\ outcome' = Success(transformIssueData(resp.issue))
               /\ pc' = "done"
               /\ UNCHANGED <<cmd, args, loc>>
  /\ UNCHANGED <<remote, session>>

\* --------------------------------------------------- createIssue, stepwise
\* resolveVariables, the batch request if there is anything to resolve, and
\* everything computed from its answer
CreateBatchResolve ==
  /\ pc = "start"
  /\ cmd = "createIssue"
  /\ LET variables == CreateResolveVariables(args)
     IN \E resp \in IF DOMAIN variables # {} THEN CreateBatchResponses(args)
                    ELSE {NoBatchResult} :
          LET req == Req("BATCH_RESOLVE_FOR_CREATE_QUERY", variables)
              sent == IF DOMAIN variables # {} THEN <<req>> ELSE <<>>
              r == CreateAfterBatch(args, resp)
          IN IF ~resp.ok THEN Fail(transportError(req.q), sent, resp)
             ELSE IF r.err # NoError THEN Fail(r.err, sent, resp)
             ELSE /\ Exchange(sent, resp)
                  /\ loc' = [loc EXCEPT
                       !.finalTeamId = r.finalTeamId,
                       !.finalProjectId = r.finalProjectId,
                       !.finalLabelIds = r.finalLabelIds,
                       !.finalParentId = r.finalParentId,
                       !.finalMilestoneId = r.finalMilestoneId,
                       !.finalCycleId = args.cycleId,
                       !.resolvedStatusId = args.statusId]
                  /\ pc' = IF ByName(args.cycleId)
                           THEN IF Truthy(r.finalTeamId) THEN "cycleScoped"
                                ELSE PcAfterScoped(args, args.cycleId, Undefined)
                           ELSE PcAfterCycle(args, Undefined)
                  /\ UNCHANGED <<cmd, args, outcome>>
  /\ UNCHANGED <<remote, session>>

\* FindCycleScoped of createIssue
CreateCycleScoped ==
  /\ pc = "cycleScoped"
  /\ cmd = "createIssue"
  /\ \E resp \in CreateCycleResponses :
       LET req == Req("FindCycleScoped",
                      [name |-> args.cycleId, teamId |-> loc.finalTeamId])
           val == FirstCycle(resp.nodes, loc.finalCycleId)
       IN IF ~resp.ok THEN Fail(transportError(req.q), <<req>>, resp)
          ELSE /\ Exchange(<<req>>, resp)
               /\ loc' = [loc EXCEPT !.finalCycleId = val]
               /\ pc' = PcAfterScoped(args, val, Undefined)
               /\ UNCHANGED <<cmd, args, outcome>>
  /\ UNCHANGED <<remote, session>>

\* the create mutation and the issue it returns
CreateMutate ==
  /\ pc = "mutate"
  /\ cmd = "createIssue"
  /\ \E resp \in IssueMutationResponses :
       LET req == Req("CREATE_ISSUE_MUTATION",
                      [input |-> BuildCreateInput(args, loc)])
       IN IF ~resp.ok THEN Fail(transportError(req.q), <<req>>, resp)
          ELSE IF ~resp.success
          THEN Fail(Error("remote_failure", "Failed to create issue", <<>>),
                    <<req>>, resp)
          ELSE IF resp.issue = Null
          THEN Fail(Error("remote_failure", "Failed to retrieve created issue",
                          <<>>), <<req>>, resp)
          ELSE /\ Exchange(<<req>>, resp)
               /\ outcome' = Success(transformIssueData(resp.issue))
               /\ pc' = "done"
               /\ UNCHANGED <<cmd, args, loc>>
  /\ UNCHANGED <<remote, session>>

\* -------------------------------------------------- searchIssues, stepwise
\* resolveVariables, the batch request if needed, and the resolved filter ids
SearchBatchResolve ==
  /\ pc = "start"
  /\ cmd = "searchIssues"
  /\ \E resp \in IF NeedsResolve(args) THEN SearchBatchResponses(args)
                 ELSE {NoBatchResult} :
          LET req == Req("BATCH_RESOLVE_FOR_SEARCH_QUERY",
                         SearchResolveVariables(args))
              sent == IF NeedsResolve(args) THEN <<req>> ELSE <<>>
              r == SearchAfterBatch(args, resp)
          IN IF ~resp.ok THEN Fail(transportError(req.q), sent, resp)
             ELSE IF r.err # NoError THEN Fail(r.err, sent, resp)
             ELSE /\ Exchange(sent, resp)
                  /\ loc' = [loc EXCEPT
                       !.finalTeamId = r.finalTeamId,
                       !.finalProjectId = r.finalProjectId,
                       !.finalAssigneeId = r.finalAssigneeId]
                  /\ pc' = "search"
                  /\ UNCHANGED <<cmd, args, outcome>>
  /\ UNCHANGED <<remote, session>>

\* the text search with client-side filters, or the filtered search
SearchQuery ==
  /\ pc = "search"
  /\ cmd = "searchIssues"
  /\ \E resp \in SearchResponses :
       LET first == IF Truthy(args.limit) THEN args.limit ELSE Num(10)
           req == IF Truthy(args.query)
                  THEN Req("SEARCH_ISSUES_QUERY",
                           [term |-> args.query, first |-> first])
                  ELSE Req("FILTERED_SEARCH_ISSUES_QUERY",
                           [first |-> first, filter |-> SearchFilter(args, loc)])
           found == IF ~resp.hasNodes THEN <<>>
                    ELSE IF Truthy(args.query)
                    THEN SearchResultFilter(args, loc, resp.nodes)
                    ELSE resp.nodes
       IN IF ~resp.ok THEN Fail(transportError(req.q), <<req>>, resp)
          ELSE /\ Exchange(<<req>>, resp)
               /\ outcome' = Success(Arr([i \in DOMAIN found |->
                                            transformIssueData(found[i])]))
               /\ pc' = "done"
               /\ UNCHANGED <<cmd, args, loc>>
  /\ UNCHANGED <<remote, session>>
\* ------------------------------------- documents and attachments, stepwise
\* the first request of a documents / attachments command
PcAfterStart(c, options) ==
  CASE c = "documents create" ->
         IF Truthy(options.project) THEN "docProject"
         ELSE IF Truthy(options.team) THEN "docTeam" ELSE "docSend"
    [] c = "documents update" ->
         IF Truthy(options.project) THEN "docProject" ELSE "docSend"
    [] c = "documents list" ->
         IF Truthy(options.issue) THEN "resolveIssue"
         ELSE IF Truthy(options.project) THEN "docProject" ELSE "docSend"
    [] c \in {"attachments create", "attachments list"} -> "resolveIssue"
    [] c = "attachments delete" -> "attSend"
    [] OTHER -> "docSend"

\* the flags are validated, the services are created, the limit is validated
DocumentsStart ==
  /\ pc = "start"
  /\ cmd \in DocumentCmds \cup AttachmentCmds
  /\ LET flags == IF cmd = "documents list"
                  THEN ValidateListOptions(args.options) ELSE NoError
         limit == IF cmd = "documents list"
                  THEN ValidateLimit(args.options) ELSE NoError
     IN IF flags # NoError THEN Fail(flags, <<>>, answer)
        ELSE \E created \in BOOLEAN :
               IF ~created
               THEN Fail(Error("auth", "api token", <<>>), <<>>, answer)
               ELSE IF limit # NoError THEN Fail(limit, <<>>, answer)
               ELSE /\ pc' = PcAfterStart(cmd, args.options)
                    /\ loc' = [loc EXCEPT
                         !.limit = IF cmd = "documents list"
                                   THEN ListLimit(args.options) ELSE @]
                    /\ UNCHANGED <<cmd, args, requests, answer, outcome>>
  /\ UNCHANGED <<remote, session>>

\* linearService.resolveProjectId(options.project)
DocumentsResolveProject ==
  /\ pc = "docProject"
  /\ cmd \in DocumentCmds
  /\ \E resp \in IdLookupResponses :
       LET r == resolveProjectId(args.options.project.v, resp)
       IN IF r.err # NoError THEN Fail(r.err, r.sent, resp)
          ELSE /\ Exchange(r.sent, resp)
               /\ loc' = [loc EXCEPT !.projectId = Str(r.id)]
               /\ pc' = IF cmd = "documents create" /\ Truthy(args.options.team)
                        THEN "docTeam" ELSE "docSend"
               /\ UNCHANGED <<cmd, args, outcome>>
  /\ UNCHANGED <<remote, session>>

\* `documents create --team`: linearService.resolveTeamId
DocumentsResolveTeam ==
  /\ pc = "docTeam"
  /\ cmd = "documents create"
  /\ \E resp \in TeamLookupResponses :
       LET r == resolveTeamId(args.options.team.v, resp)
       IN IF r.err # NoError THEN Fail(r.err, r.sent, resp)
          ELSE /\ Exchange(r.sent, resp)
               /\ loc' = [loc EXCEPT !.teamId = Str(r.id)]
               /\ pc' = "docSend"
               /\ UNCHANGED <<cmd, args, outcome>>
  /\ UNCHANGED <<remote, session>>

\* the answers the remote may give to the request of DocumentsSend
DocumentsSendResponses ==
  CASE cmd = "documents list" ->
         {[ok |-> r.ok, success |-> r.ok, entity |-> Null, nodes |-> r.nodes] :
            r \in DocumentListResponses}
    [] cmd = "documents delete" ->
         {[ok |-> r.ok, success |-> r.success, entity |-> Null, nodes |-> <<>>] :
            r \in EntityResponses(Null)}
    [] OTHER ->
         {[ok |-> r.ok, success |-> r.success, entity |-> r.entity,
           nodes |-> <<>>] : r \in EntityResponses(DocumentEntity)}

\* the call of the documents service, with the answer `resp`
DocumentsServiceCall(resp) ==
  LET o == args.options
  IN CASE cmd = "documents create" ->
            createDocument([title |-> o.title, content |-> o.content,
                            projectId |-> loc.projectId, teamId |-> loc.teamId,
                            icon |-> o.icon, color |-> o.color], resp)
       [] cmd = "documents update" ->
            updateDocument(args.documentId,
                           BuildDocumentInput(o, loc.projectId), resp)
       [] cmd = "documents read" -> getDocument(args.documentId, resp)
       [] cmd = "documents list" ->
            listDocuments([projectId |-> loc.projectId, first |-> loc.limit],
                          resp)
       [] cmd = "documents delete" -> deleteDocument(args.documentId, resp)

\* the call of the documents service and the output; `documents create
\* --attach-to` goes on to the attachment
DocumentsSend ==
  /\ pc = "docSend"
  /\ cmd \in DocumentCmds
  /\ \E resp \in DocumentsSendResponses :
       LET r == DocumentsServiceCall(resp)
       IN IF r.err # NoError THEN Fail(r.err, r.sent, resp)
          ELSE /\ Exchange(r.sent, resp)
               /\ loc' = [loc EXCEPT !.returned = r.val,
                                     !.document = IF cmd = "documents create"
                                                  THEN r.val ELSE @]
               /\ IF cmd = "documents create" /\ Truthy(args.options.attachTo)
                  THEN /\ pc' = "resolveIssue"
                       /\ UNCHANGED outcome
                  ELSE /\ pc' = "done"
                       /\ outcome' =
                            Success(IF cmd = "documents delete"
                                    THEN [success |-> True] ELSE r.val)
               /\ UNCHANGED <<cmd, args>>
  /\ UNCHANGED <<remote, session>>

\* the issue the command refers to: --issue, or --attach-to of `documents create`
IssueReference ==
  IF cmd = "documents create" THEN args.options.attachTo.v
  ELSE args.options.issue.v

\* linearService.resolveIssueId, its request answered `resp`
ResolveIssueStep(resp) ==
  LET r == resolveIssueId(IssueReference, resp)
  IN IF r.err # NoError THEN Fail(r.err, r.sent, resp)
     ELSE /\ Exchange(r.sent, resp)
          /\ loc' = [loc EXCEPT !.issueId = Str(r.id)]
          /\ pc' = "attSend"
          /\ UNCHANGED <<cmd, args, outcome>>

\* linearService.resolveIssueId
CommandResolveIssue ==
  /\ pc = "resolveIssue"
  /\ cmd \in DocumentCmds \cup AttachmentCmds
  /\ \E resp \in IdLookupResponses : ResolveIssueStep(resp)
  /\ UNCHANGED <<remote, session>>

\* the input of createAttachment
AttachmentInput ==
  IF cmd = "documents create"
  THEN [issueId |-> loc.issueId, url |-> Str(loc.document.url),
        title |-> Str(loc.document.title)]
  ELSE [issueId |-> loc.issueId, url |-> args.options.url,
        title |-> args.options.title, subtitle |-> args.options.subtitle,
        commentBody |-> args.options.comment, iconUrl |-> args.options.iconUrl]

\* the answers the remote may give to the request of AttachmentsSend
AttachmentsSendResponses ==
  CASE cmd \in {"attachments list", "documents list"} ->
         {[ok |-> r.ok, success |-> r.ok, entity |-> Null, issue |-> r.issue,
           nodes |-> r.nodes] : r \in AttachmentListResponses}
    [] cmd = "attachments delete" ->
         {[ok |-> r.ok, success |-> r.success, entity |-> Null,
           issue |-> FALSE, nodes |-> <<>>] : r \in EntityResponses(Null)}
    [] OTHER ->
         {[ok |-> r.ok, success |-> r.success, entity |-> r.entity,
           issue |-> FALSE, nodes |-> <<>>] :
            r \in EntityResponses(AttachmentEntity(AttachmentInput))}

\* the call of the attachments service, with the answer `resp`
AttachmentsServiceCall(resp) ==
  CASE cmd \in {"attachments create", "documents create"} ->
         createAttachment(AttachmentInput, resp)
    [] cmd \in {"attachments list", "documents list"} ->
         listAttachments(loc.issueId.v, resp)
    [] cmd = "attachments delete" -> deleteAttachment(args.attachmentId, resp)
\* variant: the error of the attachment is passed on as it is
AttachErrorRethrown(document, attachTo, attachError) == attachError

\* `documents create --attach-to`: the error thrown when the attachment failed,
\* `Document created (${document.id}) but failed to attach to issue
\* "${options.attachTo}": ${errorMessage}. To retry attachment: ...`
AttachFailedError(document, attachTo, attachError) ==
  [type |-> "attach_failed", entity |-> "document",
   value |-> <<document.id, attachTo, document.url, document.title>>,
   matches |-> <<attachError>>]

\* what the command prints after its attachments call returned `val`
AttachmentsOutput(val) ==
  CASE cmd = "documents create" -> loc.document
    [] cmd = "attachments delete" ->
         [deleted |-> True, id |-> Str(args.attachmentId)]
    [] cmd = "documents list" -> Arr(<<>>)
    [] OTHER -> val
\* variant: the empty list is printed without returning from the handler
AttachmentsSendStepNoReturn(resp) ==
  LET r == AttachmentsServiceCall(resp)
      slugIds == IF cmd = "documents list" /\ r.err = NoError
                 THEN DocumentSlugIds(r.val.v) ELSE <<>>
  IN IF r.err # NoError
     THEN Fail(IF cmd = "documents create"
               THEN AttachFailedError(loc.document, args.options.attachTo.v,
                                      r.err)
               ELSE r.err, r.sent, resp)
     ELSE /\ Exchange(r.sent, resp)
          /\ loc' = [loc EXCEPT !.returned = r.val,
                                !.slugIds = Arr(slugIds)]
          /\ IF cmd = "documents list"
             THEN /\ pc' = "docSlugs"
                  /\ outcome' = IF slugIds = <<>> THEN Success(Arr(<<>>))
                                ELSE outcome
             ELSE /\ pc' = "done"
                  /\ outcome' = Success(AttachmentsOutput(r.val))
          /\ UNCHANGED <<cmd, args>>

\* the call of the attachments service, answered `resp`, and what follows it:
\* the output, or for `documents list --issue` with document links the list
\* of the documents
AttachmentsSendStep(resp) ==
  LET r == AttachmentsServiceCall(resp)
      slugIds == IF cmd = "documents list" /\ r.err = NoError
                 THEN DocumentSlugIds(r.val.v) ELSE <<>>
  IN IF r.err # NoError
     THEN Fail(IF cmd = "documents create"
               THEN AttachFailedError(loc.document, args.options.attachTo.v,
                                      r.err)
               ELSE r.err, r.sent, resp)
     ELSE /\ Exchange(r.sent, resp)
          /\ loc' = [loc EXCEPT !.returned = r.val,
                                !.slugIds = Arr(slugIds)]
          /\ IF slugIds # <<>>
             THEN /\ pc' = "docSlugs"
                  /\ UNCHANGED outcome
             ELSE /\ pc' = "done"
                  /\ outcome' = Success(AttachmentsOutput(r.val))
          /\ UNCHANGED <<cmd, args>>

\* the call of the attachments service and what follows it
AttachmentsSend ==
  /\ pc = "attSend"
  /\ cmd \in DocumentCmds \cup AttachmentCmds
  /\ \E resp \in AttachmentsSendResponses : AttachmentsSendStep(resp)
  /\ UNCHANGED <<remote, session>>

\* `documents list --issue`: documentsService.listDocumentsBySlugIds
DocumentsListBySlugIds ==
  /\ pc = "docSlugs"
  /\ cmd = "documents list"
  /\ \E resp \in DocumentListResponses :
       LET r == listDocumentsBySlugIds(loc.slugIds.v, loc.limit, resp)
       IN IF r.err # NoError THEN Fail(r.err, r.sent, resp)
          ELSE /\ Exchange(r.sent, resp)
               /\ loc' = [loc EXCEPT !.returned = r.val]
               /\ outcome' = Success(r.val)
               /\ pc' = "done"
               /\ UNCHANGED <<cmd, args>>
  /\ UNCHANGED <<remote, session>>

\* -------------------------------------------------------- `projects create`
\* the services are created and the team is resolved
ProjectsCreateResolveTeam ==
  /\ pc = "start"
  /\ cmd = "projects create"
  /\ \E created \in BOOLEAN, resp \in TeamLookupResponses :
       LET r == resolveTeamId(args.options.team.v, resp)
       IN IF ~created
          THEN Fail(Error("auth", "api token", <<>>), <<>>, answer)
          ELSE IF r.err # NoError THEN Fail(r.err, r.sent, resp)
          ELSE /\ Exchange(r.sent, resp)
               /\ loc' = [loc EXCEPT !.teamId = Str(r.id)]
               /\ pc' = "createSend"
               /\ UNCHANGED <<cmd, args, outcome>>
  /\ UNCHANGED <<remote, session>>

\* CREATE_PROJECT_MUTATION and the output
ProjectsCreateSend ==
  /\ pc = "createSend"
  /\ cmd = "projects create"
  /\ \E resp \in ProjectOpResponses :
       LET req == Req("CREATE_PROJECT_MUTATION",
                      BuildCreateVars(args.name, args.options, loc.teamId.v))
       IN IF ~resp.ok THEN Fail(transportError(req.q), <<req>>, resp)
          ELSE IF ~resp.success
          THEN Fail(Error("remote_failure", "Failed to create project", <<>>),
                    <<req>>, resp)
          ELSE /\ Exchange(<<req>>, resp)
               /\ outcome' = Success(transformProject(ProjectEntity(Uuid("9"))))
               /\ pc' = "done"
               /\ UNCHANGED <<cmd, args, loc>>
  /\ UNCHANGED <<remote, session>>

Next ==
  \/ ProjectsStart
  \/ ProjectsResolve
  \/ ProjectsResolveTeam
  \/ ProjectsSend
  \/ UpdateBatchResolve
  \/ UpdateCycleTeam
  \/ UpdateCycleScoped
  \/ IssueCycleGlobal
  \/ UpdateStatusTeam
  \/ IssueStatusResolve
  \/ UpdateMutate
  \/ CreateBatchResolve
  \/ CreateCycleScoped
  \/ CreateMutate
  \/ SearchBatchResolve
  \/ SearchQuery
  \/ DocumentsStart
  \/ DocumentsResolveProject
  \/ DocumentsResolveTeam
  \/ DocumentsSend
  \/ CommandResolveIssue
  \/ AttachmentsSend
  \/ DocumentsListBySlugIds
  \/ ProjectsCreateResolveTeam
  \/ ProjectsCreateSend

Spec == Init /\ [][Next]_vars

\* ====================================== attachments commands, one after another
\* The remote keeps the attachments: `remote.attachments` lists them in the
\* order of their creation.  `session` is what the outputs of the finished
\* invocations tell: the attachments created and not deleted since (`live`,
\* pairs of the --issue given and the id printed) and the ids whose deletion
\* was printed (`deleted`).
MaxCreated == 3

\* the id of the n-th attachment the remote creates
AttachmentIdNo(n) == <<"a", <<"1", "2", "3", "4", "5", "6", "7", "8", "9">>[n]>>

\* the issues of the remote: ENG-1 has the id Uuid("8")
RemoteIssueIds == {Uuid("8"), Uuid("a")}

RoundTripArgs(c) ==
  CASE c = "attachments create" ->
         {[attachmentId |-> AttachmentId,
           options |-> [issue |-> Str(i), url |-> Str(u), title |-> Str(TitleT),
                        subtitle |-> Undefined, comment |-> Undefined,
                        iconUrl |-> Undefined]] :
            i \in {IssueENG1, Uuid("a")}, u \in {UrlExample, UrlLinearDocument}}
    [] c = "attachments list" ->
         {[attachmentId |-> AttachmentId,
           options |-> [issue |-> Str(i), url |-> Undefined,
                        title |-> Undefined]] : i \in {IssueENG1, Uuid("a")}}
    [] c = "attachments delete" ->
         {[attachmentId |-> AttachmentIdNo(n),
           options |-> [issue |-> Undefined, url |-> Undefined,
                        title |-> Undefined]] : n \in 1..MaxCreated}

RoundTripInit ==
  /\ cmd \in AttachmentCmds
  /\ args \in RoundTripArgs(cmd)
  /\ pc = "start"
  /\ requests = <<>>
  /\ answer = NoAnswer
  /\ loc = InitLoc
  /\ outcome = NoOutcome
  /\ remote = EmptyRemote
  /\ session = EmptySession

\* the remote answers the issue lookup: ENG-1 is found, unless the request is
\* rejected
RoundTripResolveIssue ==
  /\ pc = "resolveIssue"
  /\ cmd \in AttachmentCmds
  /\ \E resp \in {[ok |-> FALSE, nodes |-> <<>>],
                  [ok |-> TRUE, nodes |-> <<[id |-> Uuid("8")]>>]} :
       ResolveIssueStep(resp)
  /\ UNCHANGED <<remote, session>>

\* a request that is rejected, and a mutation that is refused
Rejected ==
  [ok |-> FALSE, success |-> FALSE, entity |-> Null, issue |-> FALSE,
   nodes |-> <<>>]

Refused == [Rejected EXCEPT !.ok = TRUE]

\* the request the attachments service sends for the command
AttachmentsRequest == AttachmentsServiceCall(Rejected).sent[1]

\* attachmentCreate: the attachment of the issue with that URL is updated, or
\* a new one is created
RemoteCreate(input) ==
  LET Same(a) == a.issueId = input.issueId.v /\ a.url = input.url.v
      at == FindIdx(remote.attachments, Same)
      entity == [id |-> IF at # 0 THEN remote.attachments[at].id
                        ELSE AttachmentIdNo(remote.next),
                 issueId |-> input.issueId.v, url |-> input.url.v,
                 title |-> input.title.v]
  IN [resp |-> [Refused EXCEPT !.success = TRUE, !.entity = entity],
      after |-> IF at # 0
                THEN [remote EXCEPT !.attachments[at] = entity]
                ELSE [attachments |-> Append(remote.attachments, entity),
                      next |-> remote.next + 1]]

\* attachmentDelete: the attachment with that id is removed; an id the remote
\* does not know is refused
RemoteDelete(id) ==
  LET Other(a) == a.id # id
      rest == SelectSeq(remote.attachments, Other)
  IN IF rest = remote.attachments THEN [resp |-> Refused, after |-> remote]
     ELSE [resp |-> [Refused EXCEPT !.success = TRUE],
           after |-> [remote EXCEPT !.attachments = rest]]

\* issue(id) { attachments }: the attachments of the issue, null for an id
\* that is not the id of an issue
RemoteList(issueId) ==
  LET Of(a) == a.issueId = issueId
  IN [resp |-> IF issueId \in RemoteIssueIds
               THEN [Refused EXCEPT !.success = TRUE, !.issue = TRUE,
                       !.nodes = SelectSeq(remote.attachments, Of)]
               ELSE Refused,
      after |-> remote]

\* how the remote may answer the request, and what it keeps afterwards
RemoteHandle(req) ==
  {[resp |-> Rejected, after |-> remote]}
    \cup CASE req.q = "CREATE_ATTACHMENT_MUTATION" ->
                {[resp |-> Refused, after |-> remote],
                 RemoteCreate(req.vars.input)}
           [] req.q = "DELETE_ATTACHMENT_MUTATION" ->
                {[resp |-> Refused, after |-> remote],
                 RemoteDelete(req.vars.id.v)}
           [] req.q = "LIST_ATTACHMENTS_QUERY" ->
                {RemoteList(req.vars.issueId.v)}

\* the call of the attachments service, handled by the remote, and the output
RoundTripSend ==
  /\ pc = "attSend"
  /\ cmd \in AttachmentCmds
  /\ \E h \in RemoteHandle(AttachmentsRequest) :
       /\ AttachmentsSendStep(h.resp)
       /\ remote' = h.after
  /\ UNCHANGED session

\* what the output of the finished invocation adds to what is known
SessionAfter ==
  IF outcome.kind # "success" THEN session
  ELSE CASE cmd = "attachments create" ->
              [live |-> session.live
                          \cup {<<args.options.issue.v, outcome.value.id>>},
               deleted |-> session.deleted \ {outcome.value.id}]
         [] cmd = "attachments delete" ->
              [live |-> {l \in session.live : l[2] # outcome.value.id.v},
               deleted |-> session.deleted \cup {outcome.value.id.v}]
         [] OTHER -> session

\* the invocation is over; the user runs the next command
RoundTripNextInvocation ==
  /\ pc = "done"
  /\ session' = SessionAfter
  /\ cmd' \in AttachmentCmds
  /\ cmd' = "attachments create" => remote.next <= MaxCreated
  /\ args' \in RoundTripArgs(cmd')
  /\ pc' = "start"
  /\ requests' = <<>>
  /\ answer' = NoAnswer
  /\ loc' = InitLoc
  /\ outcome' = NoOutcome
  /\ UNCHANGED remote

RoundTripNext ==
  \/ DocumentsStart
  \/ RoundTripResolveIssue
  \/ RoundTripSend
  \/ RoundTripNextInvocation

RoundTripSpec == RoundTripInit /\ [][RoundTripNext]_vars

\* ============================== the two service creations awaited together
\* `const [service, linearService] = await Promise.all([createX(rootOpts),
\* createLinearService(rootOpts)])`: both creations are started and settle in
\* either order; `loc.settled` lists the settled ones in the order in which
\* they settled.  A creation sends no request; it fails when there is no API
\* token to build the client with.
ParallelCmds ==
  {"projects update", "documents create", "documents update", "documents list",
   "attachments create", "attachments list"}

\* the services the command creates
ServicesOf(c) ==
  {"linearService",
   CASE c = "projects update" -> "graphQLService"
     [] c \in DocumentCmds -> "documentsService"
     [] OTHER -> "attachmentsService"}

ParallelInit ==
  /\ Init
  /\ cmd \in ParallelCmds

\* the options are validated and the two creations are started
ParallelStart ==
  /\ pc = "start"
  /\ cmd \in ParallelCmds
  /\ LET v == CASE cmd = "projects update" -> ValidateUpdateOptions(args.options)
                [] cmd = "documents list" -> ValidateListOptions(args.options)
                [] OTHER -> NoError
     IN IF v # NoError THEN Fail(v, <<>>, answer)
        ELSE /\ pc' = "creating"
             /\ loc' = [loc EXCEPT !.settled = Arr(<<>>)]
             /\ UNCHANGED <<cmd, args, requests, answer, outcome>>
  /\ UNCHANGED <<remote, session>>

\* variant: the handler goes on as soon as one creation is there
AnySettled(c, settled) == Len(settled) >= 1

\* Promise.all is fulfilled when all the creations are
AllSettled(c, settled) ==
  {settled[i].service : i \in DOMAIN settled} = ServicesOf(c)

\* one of the pending creations settles.  A failure rejects Promise.all at
\* once and ends the command; when the last one is there the handler goes
\* on: `documents list` validates its limit, and the first lookup or
\* mutation is next
CreationSettles ==
  /\ pc = "creating"
  /\ cmd \in ParallelCmds
  /\ \E s \in ServicesOf(cmd), ok \in BOOLEAN :
       LET settled == loc.settled.v \o <<[service |-> s, ok |-> ok]>>
           limit == IF cmd = "documents list"
                    THEN ValidateLimit(args.options) ELSE NoError
       IN /\ \A i \in DOMAIN loc.settled.v : loc.settled.v[i].service # s
          /\ IF ~ok
             THEN /\ pc' = "done"
                  /\ outcome' = Throw(Error("auth", "api token", <<>>))
                  /\ loc' = [loc EXCEPT !.settled = Arr(settled)]
             ELSE IF ~AllSettled(cmd, settled)
             THEN /\ pc' = "creating"
                  /\ loc' = [loc EXCEPT !.settled = Arr(settled)]
                  /\ UNCHANGED outcome
             ELSE IF limit # NoError
             THEN /\ pc' = "done"
                  /\ outcome' = Throw(limit)
                  /\ loc' = [loc EXCEPT !.settled = Arr(settled)]
             ELSE /\ pc' = IF cmd = "projects update" THEN "resolve"
                           ELSE PcAfterStart(cmd, args.options)
                  /\ loc' = [loc EXCEPT
                       !.settled = Arr(settled),
                       !.limit = IF cmd = "documents list"
                                 THEN ListLimit(args.options) ELSE @]
                  /\ UNCHANGED outcome
  /\ UNCHANGED <<cmd, args, requests, answer, remote, session>>

ParallelNext ==
  \/ ParallelStart
  \/ CreationSettles
  \/ ProjectsResolve
  \/ ProjectsResolveTeam
  \/ ProjectsSend
  \/ DocumentsResolveProject
  \/ DocumentsResolveTeam
  \/ DocumentsSend
  \/ CommandResolveIssue
  \/ AttachmentsSend
  \/ DocumentsListBySlugIds

ParallelSpec == ParallelInit /\ [][ParallelNext]_vars

\* ============================================================== properties
ProjectOpQueries ==
  {"GET_PROJECT_BY_ID_QUERY", "UPDATE_PROJECT_MUTATION",
   "ARCHIVE_PROJECT_MUTATION"}

\* requests that create, change or archive something
WriteMutations ==
  {"UPDATE_PROJECT_MUTATION", "ARCHIVE_PROJECT_MUTATION",
   "UPDATE_ISSUE_MUTATION", "CREATE_ISSUE_MUTATION"}

BatchQueries ==
  {"BATCH_RESOLVE_FOR_UPDATE_QUERY", "BATCH_RESOLVE_FOR_CREATE_QUERY",
   "BATCH_RESOLVE_FOR_SEARCH_QUERY"}

CycleQueries == {"FindCycleScoped", "FindCycleGlobal"}

NoWriteSent == \A i \in DOMAIN requests : requests[i].q \notin WriteMutations

Failed == pc = "done" /\ outcome.kind = "error"

Succeeded == pc = "done" /\ outcome.kind = "success"

\* the query sent last
LastQuery == IF requests = <<>> THEN "none" ELSE requests[Len(requests)].q

\* the last request was one of `queries`, and the remote answered it
Answered(queries) == LastQuery \in queries /\ answer.ok

\* the answer to the by-name project lookup: the last answer, or the one kept
\* when other requests followed
ProjectLookupResult ==
  IF LastQuery = "FIND_PROJECT_BY_NAME_QUERY" THEN answer ELSE loc.result

\* the by-name project lookup was made and answered with n projects
ProjectLookupAnswered(n) ==
  /\ "FIND_PROJECT_BY_NAME_QUERY" \in Queries(requests)
  /\ ProjectLookupResult.ok
  /\ Len(ProjectLookupResult.nodes) = n

OpaqueOrUnset(x) ==
  \/ x \in {Undefined, Null}
  \/ x.t = "string" /\ isUuid(x.v)
  \/ x.t = "array" /\ \A i \in DOMAIN x.v : isUuid(x.v[i])

\* every identifier argument of the issue operation is opaque or not given
AllIdentifiersOpaque ==
  CASE cmd = "updateIssue" ->
         /\ isUuid(args.id)
         /\ \A k \in {"statusId", "assigneeId", "projectId", "labelIds",
                      "parentId", "milestoneId", "cycleId"} :
              OpaqueOrUnset(args[k])
    [] cmd = "createIssue" ->
         \A k \in {"teamId", "statusId", "assigneeId", "projectId", "labelIds",
                   "parentId", "milestoneId", "cycleId"} :
           OpaqueOrUnset(args[k])
    [] cmd = "searchIssues" ->
         \A k \in {"teamId", "assigneeId", "projectId"} : OpaqueOrUnset(args[k])
    [] OTHER -> FALSE

\* C2: in createIssue, updateIssue and searchIssues, when every identifier
\* argument is opaque, no batch-resolve or other lookup is sent: the only
\* request is the mutation or the search query.
C2_OpaqueArgumentsSendNoLookup ==
  AllIdentifiersOpaque =>
    \A i \in DOMAIN requests :
      requests[i].q \in {"UPDATE_ISSUE_MUTATION", "CREATE_ISSUE_MUTATION",
                         "SEARCH_ISSUES_QUERY", "FILTERED_SEARCH_ISSUES_QUERY"}

\* ---------------------------------------------------------------------- C3
\* C3: when the by-name lookup of a project answers with exactly one project,
\* resolveProjectIdFromGraphQL returns the id of that project, and the read
\* query or the mutation that follows carries exactly that id.
C3_SingleMatchIsUsed ==
  ProjectLookupAnswered(1) =>
    LET id == Str(ProjectLookupResult.nodes[1].id)
    IN /\ loc.projectId = id
       /\ pc \in {"team", "send", "done"}
       /\ \A j \in DOMAIN requests :
            requests[j].q \in ProjectOpQueries =>
              j > 1 /\ requests[j].vars.id = id
       /\ pc = "done" => LastQuery \in ProjectOpQueries \cup {"teams"}
       /\ Succeeded => LastQuery \in ProjectOpQueries

\* `projects update Alpha`: one project of that name, and the update succeeded
C3_Witness ==
  /\ cmd = "projects update"
  /\ Succeeded
  /\ ProjectLookupAnswered(1)
  /\ LastQuery = "UPDATE_PROJECT_MUTATION"
  /\ requests[Len(requests)].vars.id = Str(loc.result.nodes[1].id)
  /\ requests[Len(requests)].vars.id # Str(args.projectIdOrName)

\* ---------------------------------------------------------------------- C4
Elements(seq) == {seq[i] : i \in DOMAIN seq}

\* the references by name of the invocation that are looked up: <<kind, value>>
NamedReferences ==
  LET project == IF ByName(args.projectId)
                 THEN {<<"Project", args.projectId.v>>} ELSE {}
      labels == {<<"Label", n>> : n \in Elements(LabelNames(args))}
      team == IF ByName(args.teamId) THEN {<<"Team", args.teamId.v>>} ELSE {}
  IN CASE cmd = "updateIssue" ->
            (IF ~isUuid(args.id) THEN {<<"Issue", args.id>>} ELSE {})
              \cup labels \cup project
       [] cmd = "createIssue" ->
            team \cup project \cup labels
              \cup (IF ByName(args.parentId)
                    THEN {<<"Parent issue", args.parentId.v>>} ELSE {})
       [] cmd = "searchIssues" ->
            team \cup project
              \cup (IF ByEmail(args.assigneeId)
                    THEN {<<"User", args.assigneeId.v>>} ELSE {})
       [] OTHER -> {}

\* the batch answer `res` has no match for the reference
HasNoMatch(ref, res) ==
  CASE ref[1] = "Issue" -> res.issues = <<>>
    [] ref[1] = "Label" ->
         \A j \in DOMAIN res.labels : res.labels[j].name # ref[2]
    [] ref[1] = "Project" -> res.projects = <<>>
    [] ref[1] = "Team" -> res.teams = <<>>
    [] ref[1] = "Parent issue" -> res.parentIssues = <<>>
    [] ref[1] = "User" -> res.users = <<>>

ZeroMatches(res) == {ref \in NamedReferences : HasNoMatch(ref, res)}

MilestoneUnmatched(res) ==
  /\ ByName(args.milestoneId)
  /\ res.milestones = <<>>
  /\ \A i \in DOMAIN res.projects :
       \A j \in DOMAIN res.projects[i].projectMilestones.nodes :
         res.projects[i].projectMilestones.nodes[j].name # args.milestoneId.v

\* C5: createIssue with a milestone name that matches no milestone (not in
\* the resolved project, not in the global lookup) fails with
\* 'Milestone "<name>" not found' and sends no create mutation.
C5_UnmatchedMilestoneIsNotFound ==
  (/\ cmd = "createIssue"
   /\ Answered({"BATCH_RESOLVE_FOR_CREATE_QUERY"})
   /\ MilestoneUnmatched(answer)) =>
     /\ Failed
     /\ outcome.err.type = "not_found"
     /\ NamedReferences = {} =>
          outcome.err = notFoundError("Milestone", args.milestoneId.v)
     /\ NoWriteSent

\* ---------------------------------------------------------------------- C6
\* C6: in updateIssue and createIssue, for a cycle given by name, a team-scoped
\* lookup with zero matches is followed by the global lookup as the next
\* request, without a team the global lookup is made before any mutation, and
\* a global lookup with zero matches fails with 'Cycle "<name>" not found' and
\* no mutation.
C6_CycleFallsBackToGlobal ==
  (cmd \in {"updateIssue", "createIssue"} /\ ByName(args.cycleId)) =>
    /\ (Answered({"FindCycleScoped"}) /\ answer.nodes = <<>>) =>
         pc = "cycleGlobal"
    /\ (Answered({"FindCycleGlobal"}) /\ answer.nodes = <<>>) =>
         /\ Failed
         /\ outcome.err = notFoundError("Cycle", args.cycleId.v)
         /\ NoWriteSent
    /\ \A i \in DOMAIN requests :
         requests[i].q \in WriteMutations =>
           \E j \in 1..(i - 1) : requests[j].q \in CycleQueries

\* ---------------------------------------------------------------------- C7
\* C7: when the by-name lookup of a project answers with more than one
\* project, the command fails with the multiple-matches error that lists every
\* project returned, by name and state and in order, and the lookup is the
\* last request: no read query and no update / archive mutation follows.
C7_AmbiguousProjectIsRejected ==
  (\E n \in 2..(MaxNodes + 1) : ProjectLookupAnswered(n)) =>
    LET nodes == ProjectLookupResult.nodes
    IN /\ Failed
       /\ outcome.err.type = "multiple_matches"
       /\ outcome.err.entity = "project"
       /\ outcome.err.value = args.projectIdOrName
       /\ outcome.err.matches =
            [j \in DOMAIN nodes |->
               [name |-> nodes[j].name, state |-> nodes[j].state]]
       /\ LastQuery = "FIND_PROJECT_BY_NAME_QUERY"
       /\ \A j \in DOMAIN requests : requests[j].q \notin ProjectOpQueries

\* `projects read Alpha` answered with two projects of that name
C7_Witness ==
  /\ cmd = "projects read"
  /\ Failed
  /\ Len(requests) = 1
  /\ ProjectLookupAnswered(2)
  /\ Len(outcome.err.matches) = 2
  /\ outcome.err.matches[1] # outcome.err.matches[2]

\* ---------------------------------------------------------------------- C8
\* the batch answer has several matches for a name meant to be unique: the
\* project name, a label name, or the milestone name in the global list when
\* no project gives a context
HasSeveralMatches(res) ==
  \/ ByName(args.projectId) /\ Len(res.projects) > 1
  \/ \E n \in Elements(LabelNames(args)) :
       Cardinality({j \in DOMAIN res.labels : res.labels[j].name = n}) > 1
  \/ /\ cmd \in {"updateIssue", "createIssue"}
     /\ ByName(args.milestoneId)
     /\ res.projects = <<>>
     /\ res.issues = <<>>
     /\ Len(res.milestones) > 1

\* C8: in createIssue, updateIssue and searchIssues, a batch answer with
\* several matches for a project name, a label name or a globally looked-up
\* milestone name ends the operation with an ambiguity error, and no mutation
\* is sent.
C8_SeveralMatchesIsAmbiguous ==
  (/\ Answered(BatchQueries)
   /\ ZeroMatches(answer) = {}
   /\ HasSeveralMatches(answer)) =>
     /\ Failed
     /\ outcome.err.type \in {"multiple_matches", "ambiguous", "not_found"}
     /\ NoWriteSent

\* ---------------------------------------------------------------------- C9
\* the ids of the cycles of `nodes` the tie-break prefers
PreferredCycles(nodes) ==
  LET ids(P(_)) == {nodes[j].id : j \in {k \in DOMAIN nodes : P(nodes[k])}}
      Active(n) == n.isActive
      IsNext(n) == n.isNext
      Previous(n) == n.isPrevious
  IN IF ids(Active) # {} THEN ids(Active)
     ELSE IF ids(IsNext) # {} THEN ids(IsNext)
     ELSE ids(Previous)

\* C9: in updateIssue, a cycle lookup (team-scoped or global) answered with
\* more than one cycle chooses an active cycle if there is one, else a next
\* one, else a previous one; if no cycle is active, next or previous the
\* operation fails with the ambiguity error right after the lookup and no
\* update mutation is sent.  The update mutation carries the cycle chosen.
C9_CycleTieBreak ==
  cmd = "updateIssue" =>
    /\ (Answered(CycleQueries) /\ Len(answer.nodes) > 1) =>
         IF PreferredCycles(answer.nodes) # {}
         THEN /\ ~Failed
              /\ loc.finalCycleId.t = "string"
              /\ loc.finalCycleId.v \in PreferredCycles(answer.nodes)
         ELSE /\ Failed
              /\ outcome.err = Error("ambiguous", "cycle", args.cycleId.v)
              /\ NoWriteSent
    /\ \A j \in DOMAIN requests :
         (requests[j].q = "UPDATE_ISSUE_MUTATION" /\ CycleByName(args)) =>
           requests[j].vars.input.cycleId = loc.finalCycleId

\* the scoped lookup answered <<next, active>>: the active cycle, the second
\* of the list, is chosen
C9_Witness ==
  /\ cmd = "updateIssue"
  /\ Answered({"FindCycleScoped"})
  /\ Len(answer.nodes) = 2
  /\ answer.nodes[1].isNext
  /\ answer.nodes[2].isActive
  /\ loc.finalCycleId = Str(answer.nodes[2].id)
  /\ pc \in {"statusTeam", "statusResolve", "mutate"}

\* --------------------------------------------------------------------- C10
\* the argument of updateIssue that sets the field k of the update input
UpdateArgumentOf(k) ==
  CASE k = "stateId" -> "statusId"
    [] k = "projectMilestoneId" -> "milestoneId"
    [] OTHER -> k

\* the options of `projects update` that set the variable k of the mutation
ProjectOptionsOf(k) ==
  CASE k = "leadId" -> {"lead", "clearLead"}
    [] k = "startDate" -> {"startDate", "clearStartDate"}
    [] k = "targetDate" -> {"targetDate", "clearTargetDate"}
    [] k = "teamIds" -> {"team"}
    [] OTHER -> {k}

ProjectUpdateVariables ==
  {"name", "description", "icon", "color", "priority", "leadId", "startDate",
   "targetDate", "teamIds"}

\* C10: the variables of the update mutations of updateIssue and of
\* `projects update` hold, besides the id of the target, a field if and only
\* if the caller set it: a field left undefined is absent, a field that was
\* set (to a value, to the empty string, to zero or to null) is present.
C10_UpdateHasExactlyTheSetFields ==
  \A i \in DOMAIN requests :
    /\ requests[i].q = "UPDATE_ISSUE_MUTATION" =>
         /\ DOMAIN requests[i].vars = {"id", "input"}
         /\ DOMAIN requests[i].vars.input =
              {k \in UpdateInputNames : args[UpdateArgumentOf(k)] # Undefined}
    /\ requests[i].q = "UPDATE_PROJECT_MUTATION" =>
         DOMAIN requests[i].vars =
           {"id"} \cup {k \in ProjectUpdateVariables :
                          \E o \in ProjectOptionsOf(k) :
                            args.options[o] # Undefined}

\* an update sent with the empty description and the cleared cycle in it
C10_Witness ==
  /\ cmd = "updateIssue"
  /\ args.description = Str(<<>>)
  /\ args.cycleId = Null
  /\ LastQuery = "UPDATE_ISSUE_MUTATION"
  /\ DOMAIN requests[Len(requests)].vars.input = {"description", "cycleId"}
  /\ requests[Len(requests)].vars.input.cycleId = Null

\* --------------------------------------------------------------------- C11
\* the clear flags of `projects update` and the variable each of them clears
ClearFlags ==
  {<<"clearLead", "lead", "leadId">>,
   <<"clearStartDate", "startDate", "startDate">>,
   <<"clearTargetDate", "targetDate", "targetDate">>}

DocumentOptionOf(k) == IF k = "projectId" THEN "project" ELSE k

\* C12: the input of the `documents update` mutation has exactly the fields
\* the caller gave among title, content, project, icon and color, a field
\* given as the empty string included, and no other field.
C12_DocumentUpdateHasExactlyTheGivenFields ==
  \A i \in DOMAIN requests :
    requests[i].q = "UPDATE_DOCUMENT_MUTATION" =>
      /\ DOMAIN requests[i].vars = {"id", "input"}
      /\ DOMAIN requests[i].vars.input =
           {k \in {"title", "content", "projectId", "icon", "color"} :
              args.options[DocumentOptionOf(k)] # Undefined}


\* --------------------------------------------------------------------- C13
\* the remote: the labels of the issue with the id Uuid("a")
LabelsOfIssueA == <<Uuid("9")>>

\* the labels the issue of the update has on the remote: those the batch
\* answer lists for an issue found by its identifier, those of the issue
\* itself when it is referenced by its id
CurrentLabels(res) ==
  IF isUuid(args.id) THEN Elements(LabelsOfIssueA)
  ELSE {res.issues[1].labels.nodes[i].id :
          i \in DOMAIN res.issues[1].labels.nodes}

\* the requested labels, names replaced by the ids the batch answer gives them
RequestedLabels(res) == Elements(ResolveLabelIds(args.labelIds.v, res.labels).ids)

\* C13: updateIssue with labels in mode "adding" goes on, after its batch
\* query, with labelIds that are the set union of the labels the issue has
\* and the requested labels, each once, whether the issue is given as TEAM-123
\* or as a UUID; in mode "overwriting" with exactly the requested labels; and
\* the update mutation sends these labelIds.
C13_LabelModes ==
  /\ ( /\ cmd = "updateIssue"
       /\ args.labelIds.t = "array"
       /\ Answered({"BATCH_RESOLVE_FOR_UPDATE_QUERY"})
       /\ ~Failed )
     => /\ loc.finalLabelIds.t = "array"
        /\ Elements(loc.finalLabelIds.v)
             = IF args.labelMode = "adding"
               THEN CurrentLabels(answer) \cup RequestedLabels(answer)
               ELSE RequestedLabels(answer)
        /\ Cardinality(Elements(loc.finalLabelIds.v)) = Len(loc.finalLabelIds.v)
  /\ ( /\ cmd = "updateIssue"
       /\ args.labelIds.t = "array"
       /\ LastQuery = "UPDATE_ISSUE_MUTATION" )
     => requests[Len(requests)].vars.input.labelIds = loc.finalLabelIds


\* --------------------------------------------------------------------- C14
\* the error the service method threw: `documents create --attach-to` wraps
\* the one of createAttachment into its own
ServiceError ==
  IF outcome.err.type = "attach_failed" THEN outcome.err.matches[1]
  ELSE outcome.err

\* the variables of the request sent last
LastVars == requests[Len(requests)].vars

\* what the caller gave createDocument: the title, then the project and the
\* team when given
CreateDocumentIdentifiers ==
  <<args.options.title.v>>
    \o (IF Truthy(loc.projectId) THEN <<loc.projectId.v>> ELSE <<>>)
    \o (IF Truthy(loc.teamId) THEN <<loc.teamId.v>> ELSE <<>>)

\* C14: in the attachments and the documents service, a mutation answered
\* with success = false raises an error that carries what the caller supplied
\* (createAttachment: issue id and URL; deleteAttachment, updateDocument,
\* deleteDocument: the id; createDocument: the title, and project and team
\* when given); a null entity in getDocument / listAttachments raises a
\* not-found error naming the id; on success the method returns the entity of
\* the answer, and true for the deletes.
C14_ServiceErrorsCarryIdentifiers ==
  /\ (Answered({"CREATE_ATTACHMENT_MUTATION"}) /\ ~answer.success) =>
       /\ Failed
       /\ ServiceError = Error("remote_failure", "create attachment",
                               <<loc.issueId.v, AttachmentInput.url.v>>)
       /\ LastVars.input.issueId = loc.issueId
       /\ LastVars.input.url = AttachmentInput.url
  /\ (Answered({"DELETE_ATTACHMENT_MUTATION"}) /\ ~answer.success) =>
       /\ Failed
       /\ ServiceError = Error("remote_failure", "delete attachment",
                               <<args.attachmentId>>)
  /\ (Answered({"UPDATE_DOCUMENT_MUTATION"}) /\ ~answer.success) =>
       /\ Failed
       /\ ServiceError = Error("remote_failure", "update document",
                               <<args.documentId>>)
  /\ (Answered({"DELETE_DOCUMENT_MUTATION"}) /\ ~answer.success) =>
       /\ Failed
       /\ ServiceError = Error("remote_failure", "delete document",
                               <<args.documentId>>)
  /\ (Answered({"CREATE_DOCUMENT_MUTATION"}) /\ ~answer.success) =>
       /\ Failed
       /\ ServiceError = Error("remote_failure", "create document",
                               CreateDocumentIdentifiers)
  /\ (Answered({"GET_DOCUMENT_QUERY"}) /\ answer.entity = Null) =>
       /\ Failed
       /\ ServiceError = Error("not_found", "Document", args.documentId)
  /\ (Answered({"LIST_ATTACHMENTS_QUERY"}) /\ ~answer.issue) =>
       /\ Failed
       /\ ServiceError = Error("not_found", "Issue", loc.issueId.v)
       /\ LastVars.issueId = loc.issueId
  /\ ( /\ Answered({"CREATE_ATTACHMENT_MUTATION", "CREATE_DOCUMENT_MUTATION",
                    "UPDATE_DOCUMENT_MUTATION"})
       /\ answer.success ) =>
       /\ ~Failed
       /\ loc.returned = answer.entity
  /\ (Answered({"GET_DOCUMENT_QUERY"}) /\ answer.entity # Null) =>
       /\ Succeeded
       /\ loc.returned = answer.entity
  /\ ( /\ Answered({"DELETE_ATTACHMENT_MUTATION", "DELETE_DOCUMENT_MUTATION"})
       /\ answer.success ) =>
       /\ Succeeded
       /\ loc.returned = True
  /\ (Answered({"LIST_ATTACHMENTS_QUERY"}) /\ answer.issue) =>
       /\ ~Failed
       /\ loc.returned = Arr(answer.nodes)

\* `attachments create` on an issue given by its identifier, answered with
\* success = false: the error names the resolved issue id and the URL
C14_Witness ==
  /\ cmd = "attachments create"
  /\ ~isUuid(args.options.issue.v)
  /\ Answered({"CREATE_ATTACHMENT_MUTATION"})
  /\ ~answer.success
  /\ Failed
  /\ outcome.err.value = <<loc.issueId.v, args.options.url.v>>


\* --------------------------------------------------------------------- C15
\* the mutations of the project commands and of the issues service
ProjectAndIssueMutations ==
  WriteMutations \cup {"CREATE_PROJECT_MUTATION"}

\* what the user passed to name the entity of the mutation
UserSuppliedIdentifier ==
  CASE cmd = "projects create" -> args.name
    [] cmd \in ProjectCmds -> args.projectIdOrName
    [] cmd = "updateIssue" -> args.id
    [] cmd = "createIssue" -> args.title.v

\* C15: `projects create`, `projects update`, `projects archive`, createIssue
\* and updateIssue answer a mutation response with a non-success flag by an
\* error that carries the operation and the identifier the user passed (the
\* project name or id, the issue id).
C15_MutationFailureNamesIdentifier ==
  (Answered(ProjectAndIssueMutations) /\ ~answer.success) =>
    /\ Failed
    /\ outcome.err.type = "remote_failure"
    /\ UserSuppliedIdentifier \in Elements(outcome.err.value)


\* --------------------------------------------------------------------- C16
\* requests answered with a success flag
FlaggedMutations ==
  ProjectAndIssueMutations
    \cup {"CREATE_DOCUMENT_MUTATION", "UPDATE_DOCUMENT_MUTATION",
          "DELETE_DOCUMENT_MUTATION", "CREATE_ATTACHMENT_MUTATION",
          "DELETE_ATTACHMENT_MUTATION"}

\* the last answer has null where the entity asked for is expected
NullEntityAnswered ==
  /\ answer.ok
  /\ CASE LastQuery \in {"GetIssueTeam", "LIST_ATTACHMENTS_QUERY"} ->
            ~answer.issue
       [] LastQuery = "GET_DOCUMENT_QUERY" -> answer.entity = Null
       [] LastQuery = "GET_PROJECT_BY_ID_QUERY" -> ~answer.found
       [] LastQuery \in {"UPDATE_ISSUE_MUTATION", "CREATE_ISSUE_MUTATION"} ->
            answer.success /\ answer.issue = Null
       [] OTHER -> FALSE

\* the request sent last failed: it was rejected, or answered with a
\* non-success flag, or with a null entity
LastRequestFailed ==
  /\ requests # <<>>
  /\ \/ ~answer.ok
     \/ LastQuery \in FlaggedMutations /\ ~answer.success
     \/ NullEntityAnswered

\* C16: there is no retry: once a remote request has failed (rejected,
\* non-success flag, null entity) the invocation is over with the error
\* outcome; the failed request stays the last of the log, since no step is
\* taken at pc = "done".
C16_FailedRequestIsTerminal == LastRequestFailed => Failed


\* --------------------------------------------------------------------- C17
\* C17: an operation issues at most two remote requests; updateIssue and
\* createIssue issue nothing but their batch-resolve query and their mutation,
\* whatever the issue id, label, project, milestone, cycle and status given.
C17_AtMostTwoRequests ==
  /\ Len(requests) <= 2
  /\ cmd \in {"updateIssue", "createIssue"} =>
       \A i \in DOMAIN requests :
         requests[i].q \in BatchQueries \cup {"UPDATE_ISSUE_MUTATION",
                                              "CREATE_ISSUE_MUTATION"}


\* --------------------------------------------------------------------- C18
\* the ids of the attachments an `attachments list` has printed
ListedIds == {outcome.value.v[i].id : i \in DOMAIN outcome.value.v}

\* C18: attachment round trip.  When `attachments list` for an issue succeeds,
\* its output has the id of every attachment an earlier `attachments create`
\* on that issue printed and no `attachments delete` has printed since, and
\* has no id that an earlier `attachments delete` printed as deleted
\* ({deleted: true, id}).
C18_AttachmentRoundTrip ==
  (cmd = "attachments list" /\ Succeeded) =>
    /\ \A l \in session.live : l[1] = args.options.issue.v => l[2] \in ListedIds
    /\ \A id \in session.deleted : id \notin ListedIds

\* the whole round trip: an attachment was created on ENG-1 and deleted again,
\* another one is live, and the list shows the live one only
C18_Witness ==
  /\ cmd = "attachments list"
  /\ Succeeded
  /\ args.options.issue.v = IssueENG1
  /\ session.deleted = {AttachmentIdNo(1)}
  /\ session.live = {<<IssueENG1, AttachmentIdNo(2)>>}
  /\ ListedIds = {AttachmentIdNo(2)}


\* --------------------------------------------------------------------- C19
\* the pairs of flags that exclude each other, with the text that names them
ExclusiveFlags ==
  CASE cmd = "projects update" ->
         {<<"lead", "clearLead", "--lead and --clear-lead">>,
          <<"startDate", "clearStartDate",
            "--start-date and --clear-start-date">>,
          <<"targetDate", "clearTargetDate",
            "--target-date and --clear-target-date">>}
    [] cmd = "documents list" ->
         {<<"project", "issue", "--project and --issue">>}
    [] OTHER -> {}

\* the pairs of which the invocation has both flags
GivenTogether ==
  {p \in ExclusiveFlags :
     args.options[p[1]] # Undefined /\ args.options[p[2]] # Undefined}

\* C19: `projects update` with --lead and --clear-lead, --start-date and
\* --clear-start-date or --target-date and --clear-target-date, and `documents
\* list` with --project and --issue, fail with a validation error that names
\* the two flags, and no remote request is issued: the validation comes before
\* the services, the lookup and the mutation.
C19_ExclusiveFlagsAreRejected ==
  (GivenTogether # {} /\ pc # "start") =>
    /\ Failed
    /\ outcome.err.type = "validation"
    /\ \E p \in GivenTogether : outcome.err.entity = p[3]
    /\ requests = <<>>


\* --------------------------------------------------------------------- C20
\* the string is a decimal number: digits, after an optional sign
IsNumber(s) ==
  LET digits == IF s # <<>> /\ Head(s) \in {"-", "+"} THEN Tail(s) ELSE s
  IN digits # <<>> /\ \A i \in DOMAIN digits : IsDigit(digits[i])

\* the requests that list documents
ListRequests == {"LIST_DOCUMENTS_QUERY", "LIST_DOCUMENTS_BY_SLUG_IDS"}

\* C20: `documents list` with a --limit that is not a number or is less than
\* 1 fails with the error 'Invalid limit' and issues no request (no issue
\* resolution, no attachment list, no document list); with a valid limit n,
\* the list request is sent with first = n.  (The flags do not exclude each
\* other and the services could be created.)
C20_InvalidLimitIsRejected ==
  ( /\ cmd = "documents list"
    /\ args.options.limit # Undefined
    /\ pc # "start"
    /\ GivenTogether = {}
    /\ outcome.err.type # "auth" )
  => IF ~IsNumber(args.options.limit.v) \/ parseInt(args.options.limit.v).v < 1
     THEN /\ Failed
          /\ outcome.err.type = "validation"
          /\ outcome.err.entity = "Invalid limit"
          /\ requests = <<>>
     ELSE \A i \in DOMAIN requests :
            requests[i].q \in ListRequests
              => requests[i].vars.first = parseInt(args.options.limit.v)


\* --------------------------------------------------------------------- C21
\* the slug id of the URL when it is the URL of a Linear document
\* (https://linear.app/<workspace>/document/<title>-<slugId>), else none
SlugIdsOfUrl(url) ==
  IF url \in {UrlLinearDocument, UrlLinearDocumentBare}
  THEN {<<"a", "b", "c", "1">>} ELSE {}

\* the slug ids of the document links among the attachments listed last
LinkedSlugIds ==
  UNION {SlugIdsOfUrl(answer.nodes[i].url) : i \in DOMAIN answer.nodes}

\* C21: `documents list --issue` does not fail because of an attachment URL.
\* Whatever attachments the issue has, those with a malformed URL or a URL
\* that is no Linear document URL are skipped, every distinct slug id of the
\* others is asked for exactly once, and with no slug id left the output is
\* the empty array and no document query is sent.
C21_AttachmentUrlsNeverFail ==
  /\ ( /\ cmd = "documents list"
       /\ Answered({"LIST_ATTACHMENTS_QUERY"})
       /\ answer.issue )
     => /\ ~Failed
        /\ Elements(loc.slugIds.v) = LinkedSlugIds
        /\ Len(loc.slugIds.v) = Cardinality(LinkedSlugIds)
        /\ IF LinkedSlugIds = {}
           THEN Succeeded /\ outcome.value = Arr(<<>>)
           ELSE pc = "docSlugs"
  /\ cmd = "documents list" =>
       \A i \in DOMAIN requests :
         /\ requests[i].q = "LIST_DOCUMENTS_BY_SLUG_IDS" =>
              /\ i = Len(requests)
              /\ requests[i].vars.slugIds = loc.slugIds
              /\ loc.slugIds.v # <<>>
         /\ (requests[i].q = "LIST_DOCUMENTS_QUERY") => loc.issueId = Undefined

\* two attachments that link the same document: its slug id is asked for once
C21_Witness ==
  /\ cmd = "documents list"
  /\ Succeeded
  /\ LastQuery = "LIST_DOCUMENTS_BY_SLUG_IDS"
  /\ requests[Len(requests)].vars.slugIds = Arr(<<<<"a", "b", "c", "1">>>>)
  /\ requests[Len(requests) - 1].q = "LIST_ATTACHMENTS_QUERY"


\* --------------------------------------------------------------------- C22
\* C22: an invocation produces exactly one outcome.  As long as there is no
\* outcome the invocation has a step to take, and once the success output or
\* the error is there nothing follows it: no second output, no error after
\* the success output, no further request.
C22_ExactlyOneOutcome ==
  /\ outcome.kind \in {"none", "success", "error"}
  /\ (outcome.kind = "none") <=> ENABLED Next
  /\ (outcome.kind = "none") <=> (pc # "done")

\* `documents list --issue` on an issue without document links: the empty
\* array is the output, and the attachment query stays the last request
C22_Witness ==
  /\ cmd = "documents list"
  /\ Truthy(args.options.issue)
  /\ LastQuery = "LIST_ATTACHMENTS_QUERY"
  /\ Succeeded
  /\ outcome.value = Arr(<<>>)
  /\ ~ENABLED Next


\* --------------------------------------------------------------------- C23
\* the orders in which the remote may return the nodes of `seq`
Reorderings(seq) ==
  {s \in SeqsNoRep(Elements(seq), Len(seq)) : Len(s) = Len(seq)}

\* the batch answers that differ from `res` in the order of the matching
\* projects and milestones only
ReorderedBatch(res) ==
  {[res EXCEPT !.projects = p, !.milestones = m] :
     p \in Reorderings(res.projects), m \in Reorderings(res.milestones)}

\* what a resolution tells its caller: the identifier or the error, the
\* candidates of an ambiguity error taken as a set
Resolved(err, id) ==
  [type |-> err.type, entity |-> err.entity, value |-> err.value,
   matches |-> Elements(err.matches), id |-> id]

\* C23: a resolution depends on the matching nodes, not on their order: had
\* the remote returned the same projects and milestones in another order, the
\* project reference of the projects commands and the project and milestone
\* names of updateIssue would have resolved to the same identifier or the
\* same error; and a resolved identifier, given as the reference, resolves to
\* itself.
C23_ResolutionIsOrderIndependent ==
  /\ ( /\ cmd \in ProjectCmds
       /\ Answered({"FIND_PROJECT_BY_NAME_QUERY"}) ) =>
       LET ref == args.projectIdOrName
           r == resolveProjectIdFromGraphQL(ref, answer)
       IN /\ \A nodes \in Reorderings(answer.nodes) :
               LET r2 == resolveProjectIdFromGraphQL(
                           ref, [answer EXCEPT !.nodes = nodes])
               IN Resolved(r2.err, r2.id) = Resolved(r.err, r.id)
          /\ r.err = NoError =>
               /\ loc.projectId = Str(r.id)
               /\ resolveProjectIdFromGraphQL(r.id, answer).id = r.id
  /\ ( /\ cmd = "updateIssue"
       /\ Answered({"BATCH_RESOLVE_FOR_UPDATE_QUERY"}) ) =>
       LET r == UpdateAfterBatch(args, answer)
       IN /\ \A res \in ReorderedBatch(answer) :
               LET r2 == UpdateAfterBatch(args, res)
               IN /\ r2.err = r.err
                  /\ r2.finalProjectId = r.finalProjectId
                  /\ r2.finalMilestoneId = r.finalMilestoneId
          /\ r.err = NoError =>
               LET again == UpdateAfterBatch(
                              [args EXCEPT !.projectId = r.finalProjectId,
                                           !.milestoneId = r.finalMilestoneId],
                              answer)
               IN /\ again.finalProjectId = r.finalProjectId
                  /\ again.finalMilestoneId = r.finalMilestoneId


\* --------------------------------------------------------------------- C24
\* the requests of the log with the query q
RequestsOf(q) == {i \in DOMAIN requests : requests[i].q = q}

\* C24: `documents create --attach-to` whose document was created and whose
\* attachment request then failed ends with an error that carries the id of
\* the new document, the issue as the user gave it, and the URL and title of
\* the document for the retry command.  There is no success output, the
\* failed attachment request is the last request (no second attempt, nothing
\* that deletes the document), and the document was created once.
C24_AttachFailureIsActionable ==
  ( /\ cmd = "documents create"
    /\ LastQuery = "CREATE_ATTACHMENT_MUTATION"
    /\ ~(answer.ok /\ answer.success) ) =>
      /\ Failed
      /\ outcome.err.type = "attach_failed"
      /\ outcome.err.value = <<DocumentEntity.id, args.options.attachTo.v,
                               DocumentEntity.url, DocumentEntity.title>>
      /\ outcome.value = Undefined
      /\ Cardinality(RequestsOf("CREATE_DOCUMENT_MUTATION")) = 1
      /\ RequestsOf("CREATE_ATTACHMENT_MUTATION") = {Len(requests)}
      /\ RequestsOf("DELETE_DOCUMENT_MUTATION") = {}
      /\ \A i \in RequestsOf("CREATE_DOCUMENT_MUTATION") : i < Len(requests)

\* the remote refused the attachment (success: false) of a created document
\* that was to be attached to ENG-1
C24_Witness ==
  /\ cmd = "documents create"
  /\ args.options.attachTo = Str(IssueENG1)
  /\ LastQuery = "CREATE_ATTACHMENT_MUTATION"
  /\ answer.ok /\ ~answer.success
  /\ Failed
  /\ outcome.err.type = "attach_failed"
  /\ outcome.err.matches[1].type = "remote_failure"


\* --------------------------------------------------------------------- C25
\* the creations that have settled, in the order in which they settled
Settled == IF loc.settled = Undefined THEN <<>> ELSE loc.settled.v

IdentifierFields ==
  {"teamId", "assigneeId", "projectId", "stateId", "parentId",
   "projectMilestoneId", "cycleId"}

\* null or an identifier: a caller-supplied value of UUID shape, or an id
\* returned by a lookup (the ids of the remote are of UUID shape)
NullOrIdentifier(x) == x = Null \/ (x.t = "string" /\ isUuid(x.v))

\* C26: in every create or update issue mutation that is sent, each
\* identifier-valued field of the input is null or an identifier (and
\* labelIds is a list of identifiers); a name as the user typed it is never
\* sent in such a field.
C26_MutationInputHoldsIdentifiers ==
  \A i \in DOMAIN requests :
    requests[i].q \in {"CREATE_ISSUE_MUTATION", "UPDATE_ISSUE_MUTATION"} =>
      LET input == requests[i].vars.input
      IN /\ \A k \in IdentifierFields \cap DOMAIN input :
              NullOrIdentifier(input[k])
         /\ "labelIds" \in DOMAIN input =>
              \A j \in DOMAIN input.labelIds.v : isUuid(input.labelIds.v[j])


\* --------------------------------------------------------------------- C27
\* the commands that create or update, and the mutations they send
CreateUpdateCmds ==
  {"projects create", "projects update", "documents create",
   "documents update", "attachments create", "createIssue", "updateIssue"}

CreateUpdateMutations ==
  {"CREATE_PROJECT_MUTATION", "UPDATE_PROJECT_MUTATION",
   "CREATE_DOCUMENT_MUTATION", "UPDATE_DOCUMENT_MUTATION",
   "CREATE_ATTACHMENT_MUTATION", "CREATE_ISSUE_MUTATION",
   "UPDATE_ISSUE_MUTATION"}

\* the command failed to resolve a reference: it is not found, ambiguous or
\* malformed, or its lookup failed
ResolutionFailed ==
  /\ Failed
  /\ \/ outcome.err.type \in {"not_found", "multiple_matches",
                              "invalid_identifier"}
     \/ outcome.err.type = "transport" /\ LastQuery \notin CreateUpdateMutations

\* C27: in a create or update command every lookup precedes the first
\* mutation, and a command that failed to resolve a reference (the
\* --attach-to issue of `documents create` included) has sent no mutation.
C27_ResolutionPrecedesMutation ==
  cmd \in CreateUpdateCmds =>
    /\ \A i, j \in DOMAIN requests :
         (i < j /\ requests[i].q \in CreateUpdateMutations)
           => requests[j].q \in CreateUpdateMutations
    /\ ResolutionFailed =>
         \A i \in DOMAIN requests : requests[i].q \notin CreateUpdateMutations


\* --------------------------------------------------------------------- C28
\* C28: updateIssue reads the `issues` list of the batch answer only when it
\* asked for the issue by team key and number.  For an issue given by its
\* UUID the list is not that of the issue: the labels merged in adding mode,
\* the milestone and the team that scopes the cycle lookup are what they
\* would be had the list been empty.
C28_IssueContextOnlyWhenFiltered ==
  ( /\ cmd = "updateIssue"
    /\ isUuid(args.id)
    /\ Answered({"BATCH_RESOLVE_FOR_UPDATE_QUERY"}) ) =>
      LET r == UpdateAfterBatch(args, answer)
          without == UpdateAfterBatch(args, [answer EXCEPT !.issues = <<>>])
      IN /\ requests[1].vars = UpdateResolveVariables(args)
         /\ {"teamKey", "issueNumber"} \cap DOMAIN requests[1].vars = {}
         /\ r.err = without.err
         /\ r.finalLabelIds = without.finalLabelIds
         /\ r.finalMilestoneId = without.finalMilestoneId
         /\ loc.teamIdForCycle = Undefined


\* --------------------------------------------------------------------- C29
\* the project of the issue before the update, as the remote knows it
CurrentProject == Str(<<"c", "u", "r", "r", "e", "n", "t">>)

\* the project a milestone of the remote belongs to: the milestone listed
\* under the project "alpha" of the batch answer belongs to that project, the
\* one listed under the project of the issue belongs to it
MilestoneProject(milestoneId) ==
  IF milestoneId = Uuid("4") THEN Str(Uuid("2")) ELSE CurrentProject

\* the project the issue is in after the mutation with `input`: the project
\* the mutation sets, else the project the issue has (none for a new issue)
PlacedIn(input) ==
  IF "projectId" \in DOMAIN input /\ Truthy(input.projectId)
  THEN input.projectId
  ELSE IF cmd = "updateIssue" THEN CurrentProject ELSE Null

\* C29: a milestone id that createIssue or updateIssue resolved from a name
\* and sends in its mutation is a milestone of the project the issue is
\* placed in.
C29_MilestoneBelongsToProject ==
  \A i \in DOMAIN requests :
    ( /\ requests[i].q \in {"CREATE_ISSUE_MUTATION", "UPDATE_ISSUE_MUTATION"}
      /\ ByName(args.milestoneId)
      /\ "projectMilestoneId" \in DOMAIN requests[i].vars.input
      /\ isUuid(requests[i].vars.input.projectMilestoneId.v) ) =>
        MilestoneProject(requests[i].vars.input.projectMilestoneId.v)
          = PlacedIn(requests[i].vars.input)


\* --------------------------------------------------------------------- C30
\* the teams of the remote that the `teams` filter of the batch queries
\* selects: the key is $teamKey or the name is $teamName, letter case aside;
\* a variable that is null selects nothing
TeamsMatching(variables) ==
  {t \in TeamNodes :
     \/ /\ variables.teamKey # Null
        /\ toUpperCase(t.key) = toUpperCase(variables.teamKey.v)
     \/ /\ variables.teamName # Null
        /\ toLowerCase(t.name) = toLowerCase(variables.teamName.v)}

\* the teams of the remote whose key or name is the reference, case aside
TeamsCalled(ref) ==
  {t \in TeamNodes : \/ toUpperCase(t.key) = toUpperCase(ref)
                     \/ toLowerCase(t.name) = toLowerCase(ref)}

\* C30: createIssue and searchIssues, given a team reference that is no
\* UUID and a remote that answers the batch query with the teams its filter
\* selects, resolve the reference to a team whose key or name is the
\* reference (letter case aside) whenever the remote has such a team, a
\* short alphanumeric name included, and fail with `Team "<value>" not
\* found` when it has none.
C30_TeamReferenceResolves ==
  ( /\ cmd \in {"createIssue", "searchIssues"}
    /\ ByName(args.teamId)
    /\ Answered({"BATCH_RESOLVE_FOR_CREATE_QUERY",
                 "BATCH_RESOLVE_FOR_SEARCH_QUERY"})
    /\ Elements(answer.teams) = TeamsMatching(LastVars) ) =>
      LET r == FinalTeamId(args, answer)
          called == TeamsCalled(args.teamId.v)
      IN IF called = {}
         THEN /\ Failed
              /\ outcome.err = Error("not_found", "Team", args.teamId.v)
         ELSE /\ r.err = NoError
              /\ r.val \in {Str(t.id) : t \in called}
              /\ ~Failed => loc.finalTeamId = r.val

====
